---- MODULE Spec2Model ----
(***************************************************************************)
(* A model of the calendar maker's core: the month table and its events    *)
(* (lib/pycal.py), the unit conversion, the decoder dispatch, the boxes,   *)
(* the drawing of rectangles and of wrapped text (lib/print/draw.py), the  *)
(* page generators, the page layouts, the day cells with their grid and   *)
(* photos and the legal-size tiling (wall_cal.py, wall_cal_v2.py,          *)
(* wall_cal_base.py, desk_cal.py) and the PNG exporters                    *)
(* (lib/export/png_exporter.py).                                           *)
(*                                                                         *)
(* Python's None is the empty sequence and a present value v is <<v>>, so  *)
(* that optional fields of different types stay comparable.                *)
(***************************************************************************)
EXTENDS Integers, Sequences, FiniteSets, TLC

VARIABLES
    mYear,      \* Month._year   (0 before any Month is constructed)
    mMonth,     \* Month._month
    mCells,     \* Month._cells : sequence of rows, each a sequence of Day
    rDpi,       \* _Resolution._dpi
    rUnit,      \* _Resolution._unit
    rDefault,   \* _Resolution._default : the name of the bound method
    rRevert,    \* _Resolution._revert  : the name of the bound method
    rSet,       \* the last assignment to Resolution.unit and how it ended
    rCall,      \* the last to_pt call made under the current dpi and unit
    rBack,      \* pt_to applied to the result of that call
    dHandlers,  \* DrawDecoder._handlers : class -> handler ("none": no key)
    hHandles,   \* HtmlEncoder._handles  : class -> handler ("none": no key)
    dLast,      \* the last dispatch made under the current registries
    fPasses,    \* the generators returned by DrawDecoder.draw calls
    fGens,      \* the generator objects returned by handlers: their cursors
    fCalls,     \* the number of handler and __draw__ invocations
    gVariant,   \* the module whose ImageDrawer draws the Calendar
    gState,     \* the state of the generator draw(calendar) returned
    gPos,       \* how many of DrawCalendar's sub-draws have run
    gRendered,  \* the pages whose handler has built and drawn its layout
    gHeld,      \* rendered items the generator has not yet handed over
    gOut,       \* the items the consumer has received, in order
    bBox,       \* the BBox the caller holds (<<>> before any is built)
    bOp,        \* the last BBox operation: its arguments, receiver and results
    iHeap,      \* the PIL image objects: mode and pixel value inside the rectangle
    iPage,      \* the image the Draw was constructed on (0: none yet)
    iDraw,      \* Draw._image
    iRects,     \* the number of rectangle calls made on the Draw
    iLast,      \* the last rectangle call: its fill and the page pixels before it
    cHeap,      \* the image objects of a month page: mode and marks drawn
    cPage,      \* the image of the CalendarPageLayout (0: none yet)
    cCells,     \* the Day cells drawn so far on the page
    cState,     \* where DrawMonth is: none, drawing, returned
    cReturned,  \* the marks of the image DrawMonth returned
    tWrap,      \* the last get_multiline_text call: its arguments and its lines
    eCall,      \* the last expan_to_legal call: its image, tile and canvas sizes
    xJob,       \* the export job: exporter, options, whether the context is valid
    xPc,        \* where export() is: idle, loop, returned, raised (left by an exception)
    xStream,    \* the entries pulled from the page generator, each with the dpi it was rendered under
    xOutIdx,    \* output_index of the wall export
    xRes,       \* the ExportResult: success, files, errors
    xOther,     \* some other code assigned Resolution.dpi during the loop
    xProgress,  \* the calls of the progress callback: current and total
    eYear,      \* Month._year of the month built with a provider
    eMonth,     \* Month._month
    eProvider,  \* the events provider given to Month
    eCells,     \* Month._cells
    eQueried,   \* the dates passed to events.get
    yEvents,    \* the events the provider yielded for the date of the built cell
    yDay,       \* the Day built from them
    wJob,       \* the wall export job: the variant of the exporter and skip_months
    wPc,        \* where the wall export is: idle, loop, returned, raised
    wPage,      \* page_index
    wOut,       \* output_index
    wFiles,     \* result.files: the file index and the page it shows
    wSuccess,   \* result.success
    wIo,        \* a save was refused by the file system
    sGens,      \* the page generators of the wall and the desk decoder: job dpi, pages
    lVariant,   \* the layout variant asked for a region box
    lRegion,    \* the region: its name, column and row
    lBox,       \* the box the layout returned
    qPc,        \* where the wall Month handler is: idle, cells, done
    qCell,      \* the number of cells drawn and stroked
    qStroke,    \* the last stroke: what was drawn for it in order, its width in pixels
    pCell,      \* the resolution and the cell whose photo was pasted
    pPhoto,     \* the pixel size of the pasted photo and where it was pasted
    zCall,      \* the expan_to_legal call under way: image, ppi, tile and canvas sizes
    zPc,        \* where it is: idle, vertical (first dash loop), horizontal, done
    zT          \* the loop variable y or x of the dash loop

monthVars == <<mYear, mMonth, mCells>>
resVars == <<rDpi, rUnit, rDefault, rRevert, rSet, rCall, rBack>>

regVars == <<dHandlers, hHandles, dLast>>
passVars == <<fPasses, fGens, fCalls>>

genVars == <<gVariant, gState, gPos, gRendered, gHeld, gOut>>

boxVars == <<bBox, bOp>>

imgVars == <<iHeap, iPage, iDraw, iRects, iLast>>

cellVars == <<cHeap, cPage, cCells, cState, cReturned>>

wrapVars == <<tWrap>>

expandVars == <<eCall>>

exportVars == <<xJob, xPc, xStream, xOutIdx, xRes, xOther, xProgress>>

eventsVars == <<eYear, eMonth, eProvider, eCells, eQueried>>

dayVars == <<yEvents, yDay>>

wallExportVars == <<wJob, wPc, wPage, wOut, wFiles, wSuccess, wIo>>

sharedVars == <<sGens>>

layoutVars == <<lVariant, lRegion, lBox>>

gridVars == <<qPc, qCell, qStroke>>

photoVars == <<pCell, pPhoto>>

tileVars == <<zCall, zPc, zT>>

vars == <<monthVars, resVars, regVars, passVars, genVars, boxVars, imgVars, cellVars, wrapVars, expandVars, exportVars, eventsVars, dayVars, wallExportVars, sharedVars, layoutVars, gridVars, photoVars, tileVars>>

\* What the operations of one component leave alone
MonthOnly == UNCHANGED <<resVars, regVars, passVars, genVars, boxVars, imgVars, cellVars, wrapVars, expandVars, exportVars, eventsVars, dayVars, wallExportVars, sharedVars, layoutVars, gridVars, photoVars, tileVars>>
ResOnly == UNCHANGED <<monthVars, regVars, passVars, genVars, boxVars, imgVars, cellVars, wrapVars, expandVars, exportVars, eventsVars, dayVars, wallExportVars, sharedVars, layoutVars, gridVars, photoVars, tileVars>>
RegOnly == UNCHANGED <<monthVars, resVars, passVars, genVars, boxVars, imgVars, cellVars, wrapVars, expandVars, exportVars, eventsVars, dayVars, wallExportVars, sharedVars, layoutVars, gridVars, photoVars, tileVars>>
PassOnly == UNCHANGED <<monthVars, resVars, regVars, genVars, boxVars, imgVars, cellVars, wrapVars, expandVars, exportVars, eventsVars, dayVars, wallExportVars, sharedVars, layoutVars, gridVars, photoVars, tileVars>>
GenOnly == UNCHANGED <<monthVars, resVars, regVars, passVars, boxVars, imgVars, cellVars, wrapVars, expandVars, exportVars, eventsVars, dayVars, wallExportVars, sharedVars, layoutVars, gridVars, photoVars, tileVars>>
BoxOnly == UNCHANGED <<monthVars, resVars, regVars, passVars, genVars, imgVars, cellVars, wrapVars, expandVars, exportVars, eventsVars, dayVars, wallExportVars, sharedVars, layoutVars, gridVars, photoVars, tileVars>>
ImgOnly == UNCHANGED <<monthVars, resVars, regVars, passVars, genVars, boxVars, cellVars, wrapVars, expandVars, exportVars, eventsVars, dayVars, wallExportVars, sharedVars, layoutVars, gridVars, photoVars, tileVars>>
CellOnly == UNCHANGED <<monthVars, resVars, regVars, passVars, genVars, boxVars, imgVars, wrapVars, expandVars, exportVars, eventsVars, dayVars, wallExportVars, sharedVars, layoutVars, gridVars, photoVars, tileVars>>
WrapOnly == UNCHANGED <<monthVars, resVars, regVars, passVars, genVars, boxVars, imgVars, cellVars, expandVars, exportVars, eventsVars, dayVars, wallExportVars, sharedVars, layoutVars, gridVars, photoVars, tileVars>>
ExpandOnly == UNCHANGED <<monthVars, resVars, regVars, passVars, genVars, boxVars, imgVars, cellVars, wrapVars, exportVars, eventsVars, dayVars, wallExportVars, sharedVars, layoutVars, gridVars, photoVars, tileVars>>
ExportOnly == UNCHANGED <<monthVars, regVars, passVars, genVars, boxVars, imgVars, cellVars, wrapVars, expandVars, eventsVars, dayVars, wallExportVars, sharedVars, layoutVars, gridVars, photoVars, tileVars>>
EventsOnly == UNCHANGED <<monthVars, resVars, regVars, passVars, genVars, boxVars, imgVars, cellVars, wrapVars, expandVars, exportVars, dayVars, wallExportVars, sharedVars, layoutVars, gridVars, photoVars, tileVars>>
DayOnly == UNCHANGED <<monthVars, resVars, regVars, passVars, genVars, boxVars, imgVars, cellVars, wrapVars, expandVars, exportVars, eventsVars, wallExportVars, sharedVars, layoutVars, gridVars, photoVars, tileVars>>
WallExportOnly == UNCHANGED <<monthVars, resVars, regVars, passVars, genVars, boxVars, imgVars, cellVars, wrapVars, expandVars, exportVars, eventsVars, dayVars, sharedVars, layoutVars, gridVars, photoVars, tileVars>>
SharedOnly == UNCHANGED <<monthVars, regVars, passVars, genVars, boxVars, imgVars, cellVars, wrapVars, expandVars, exportVars, eventsVars, dayVars, wallExportVars, layoutVars, gridVars, photoVars, tileVars>>
LayoutOnly == UNCHANGED <<monthVars, resVars, regVars, passVars, genVars, boxVars, imgVars, cellVars, wrapVars, expandVars, exportVars, eventsVars, dayVars, wallExportVars, sharedVars, gridVars, photoVars, tileVars>>
GridOnly == UNCHANGED <<monthVars, regVars, passVars, genVars, boxVars, imgVars, cellVars, wrapVars, expandVars, exportVars, eventsVars, dayVars, wallExportVars, sharedVars, layoutVars, photoVars, tileVars>>
PhotoOnly == UNCHANGED <<monthVars, resVars, regVars, passVars, genVars, boxVars, imgVars, cellVars, wrapVars, expandVars, exportVars, eventsVars, dayVars, wallExportVars, sharedVars, layoutVars, gridVars, tileVars>>
TileOnly == UNCHANGED <<monthVars, resVars, regVars, passVars, genVars, boxVars, imgVars, cellVars, wrapVars, expandVars, exportVars, eventsVars, dayVars, wallExportVars, sharedVars, layoutVars, gridVars, photoVars>>

None == <<>>
Some(v) == <<v>>

\* ------------------------------------------------------------------------
\* Bounds of the model
\* ------------------------------------------------------------------------
FirstYear == 2015
LastYear == 2028
Years == FirstYear..LastYear

\* ------------------------------------------------------------------------
\* lib/pycal.py : Month
\* ------------------------------------------------------------------------

\* calendar.isleap
IsLeap(y) == y % 4 = 0 /\ (y % 100 # 0 \/ y % 400 = 0)

\* calendar.mdays with the leap day of February
MonthDays(y, m) ==
    IF m = 2 THEN (IF IsLeap(y) THEN 29 ELSE 28)
    ELSE IF m \in {4, 6, 9, 11} THEN 30 ELSE 31

RECURSIVE DaysBeforeMonth(_, _)
DaysBeforeMonth(y, m) ==
    IF m = 1 THEN 0 ELSE DaysBeforeMonth(y, m - 1) + MonthDays(y, m - 1)

\* datetime.date(y, m, d).toordinal()
Ordinal(y, m, d) ==
    LET p == y - 1
    IN  p * 365 + (p \div 4) - (p \div 100) + (p \div 400)
        + DaysBeforeMonth(y, m) + d

\* datetime.date(y, m, d).weekday() : Monday = 0 .. Sunday = 6
Weekday(y, m, d) == (Ordinal(y, m, d) + 6) % 7

\* calendar.SUNDAY, installed by calendar.setfirstweekday
FirstWeekday == 6

\* Leading zero cells of calendar.itermonthdays under Python's default
\* first weekday (Monday), i.e. without the setfirstweekday call.
DaysBeforeMondayFirst(day1) == day1 % 7

\* Leading zero cells of calendar.itermonthdays
DaysBefore(day1) == (day1 - FirstWeekday) % 7

\* Trailing zero cells of calendar.itermonthdays
DaysAfter(day1, ndays) == (FirstWeekday - day1 - ndays) % 7

\* list(calendar.itermonthdays(y, m)) : day numbers, 0 outside the month
IterMonthDays(y, m) ==
    LET day1 == Weekday(y, m, 1)
        ndays == MonthDays(y, m)
        before == DaysBefore(day1)
        after == DaysAfter(day1, ndays)
    IN  [i \in 1..(before + ndays + after) |->
            IF i <= before \/ i > before + ndays THEN 0 ELSE i - before]

\* calendar.monthcalendar(y, m) : the days in rows of seven
MonthCalendar(y, m) ==
    LET days == IterMonthDays(y, m)
    IN  [r \in 1..(Len(days) \div 7) |-> [c \in 1..7 |-> days[(r - 1) * 7 + c]]]

\* Day.__init__
Day(day, photo, text, moon) ==
    [day |-> day, photo |-> photo, text |-> text, moon_phase |-> moon]

\* The body of the two loops of Month.__init__ for one calendar entry, with
\* no events provider (events = None): `day if day else None`.
CellOf(d) == Day(IF d # 0 THEN Some(d) ELSE None, None, None, None)

\* The padding step of Month.__init__ : `if len(self._cells) < 6: append`
PadRows(rows) ==
    IF Len(rows) < 6
    THEN Append(rows, [c \in 1..7 |-> Day(None, None, None, None)])
    ELSE rows

\* Month.__init__ : self._cells
BuildCells(y, m) ==
    LET cal == MonthCalendar(y, m)
    IN  PadRows([r \in 1..Len(cal) |-> [c \in 1..7 |-> CellOf(cal[r][c])]])

\* Month(year, month)
NewMonth(y, m) ==
    /\ mYear' = y
    /\ mMonth' = m
    /\ mCells' = BuildCells(y, m)
    /\ MonthOnly

\* Month.table[1]
Table == mCells

MonthInit ==
    /\ mYear = 0
    /\ mMonth = 0
    /\ mCells = <<>>

MonthNext == \E y \in Years, m \in 1..12 : NewMonth(y, m)

MonthBuilt == mYear # 0

\* The cells of the table in row-major order
RowMajor(rows) == [i \in 1..(Len(rows) * 7) |-> rows[((i - 1) \div 7) + 1][((i - 1) % 7) + 1]]

\* The day numbers of the cells that hold one, in order
DayNumbers(cellSeq) ==
    LET f[i \in 0..Len(cellSeq)] ==
            IF i = 0 THEN <<>>
            ELSE IF cellSeq[i].day = None THEN f[i - 1]
                 ELSE Append(f[i - 1], cellSeq[i].day[1])
    IN  f[Len(cellSeq)]

\* C1: for every year and month, Month.table is a grid of exactly 6 rows of
\* exactly 7 Day cells each, whatever the number of weeks the month spans.
C1_GridIsSixBySeven ==
    MonthBuilt => /\ Len(Table) = 6
                  /\ \A r \in 1..Len(Table) : Len(Table[r]) = 7

\* C2: the cells of Month.table in row-major order, without the cells whose
\* day is None, are exactly 1, 2, ..., N (N the number of days of the month),
\* and day d sits in the column of its weekday, column 0 being Sunday.
C2_DaysOnceInOrderInWeekdayColumn ==
    MonthBuilt =>
        /\ DayNumbers(RowMajor(Table)) = [d \in 1..MonthDays(mYear, mMonth) |-> d]
        /\ \A r \in 1..Len(Table) : \A c \in 1..7 :
              Table[r][c].day # None =>
                  c - 1 = (Weekday(mYear, mMonth, Table[r][c].day[1]) + 1) % 7

\* A February of four weeks (the 1st a Sunday, 28 days) has been built.
C2_Witness ==
    /\ MonthBuilt
    /\ mMonth = 2
    /\ Table[1][1].day = Some(1)
    /\ MonthDays(mYear, mMonth) = 28

\* ------------------------------------------------------------------------
\* Python values handled by the unit conversion.  A float is the exact
\* rational n/d; a str is its sequence of characters.  The numbers converted
\* below are those on which the double arithmetic of the code and the exact
\* arithmetic truncate to the same integer at every dpi of the model.
\* ------------------------------------------------------------------------
PyInt(v) == [t |-> "int", n |-> v, d |-> 1, s |-> <<>>, items |-> <<>>]
PyFloat(n, d) == [t |-> "float", n |-> n, d |-> d, s |-> <<>>, items |-> <<>>]
PyStr(chars) == [t |-> "str", n |-> 0, d |-> 1, s |-> chars, items |-> <<>>]
PyTuple(items) == [t |-> "tuple", n |-> 0, d |-> 1, s |-> <<>>, items |-> items]
PyList(items) == [t |-> "list", n |-> 0, d |-> 1, s |-> <<>>, items |-> items]
PyRaise(exc) == [t |-> "raise", n |-> 0, d |-> 1, s |-> <<exc>>, items |-> <<>>]
NoCall == [t |-> "nocall", n |-> 0, d |-> 1, s |-> <<>>, items |-> <<>>]

\* int(x) of the rational n/d (d > 0): truncation toward zero
Trunc(n, d) == IF n >= 0 THEN n \div d ELSE -((-n) \div d)

\* ------------------------------------------------------------------------
\* lib/print/draw.py : _Resolution
\* ------------------------------------------------------------------------

\* PRINT_DPI
PRINT_DPI == 300

\* The methods of _Resolution that getattr can find under the names
\* "<unit>_to_pt" and "pt_to_<unit>"
ResolutionMethods ==
    {"none_to_pt", "font_to_pt", "in_to_pt", "mm_to_pt", "cm_to_pt",
     "px_to_pt", "pt_to_pt", "_to_pt", "pt_to_in", "mm_to_in",
     "font_in_to_font", "_pt_to", "to_pt", "pt_to"}

\* getattr(self, name) succeeds
HasAttr(name) == name \in ResolutionMethods

\* _Resolution.mm_to_in : mm / 25.4
MmToIn(n, d) == <<n * 10, d * 254>>

\* _Resolution.in_to_pt : int(inches * dpi)
InToPt(n, d, dpi) == Trunc(n * dpi, d)

\* _Resolution.mm_to_pt : in_to_pt(mm_to_in(mm))
MmToPt(n, d, dpi) == InToPt(MmToIn(n, d)[1], MmToIn(n, d)[2], dpi)

\* _Resolution.cm_to_pt : mm_to_pt(cm * 10)
CmToPt(n, d, dpi) == MmToPt(n * 10, d, dpi)

\* _Resolution.px_to_pt : in_to_pt(px * 96)
PxToPt(n, d, dpi) == InToPt(n * 96, d, dpi)

\* _Resolution.font_to_pt : int((font_size / 72) * dpi)
FontToPt(n, d, dpi) == Trunc(n * dpi, d * 72)

\* _Resolution.none_to_pt and pt_to_pt : int(val)
NoneToPt(n, d) == Trunc(n, d)

\* The call of one of the conversion methods that are bound by name,
\* `_to_pt` excepted, on the number n/d
CallUnitMethod(name, n, d, dpi) ==
    CASE name = "in_to_pt" -> PyInt(InToPt(n, d, dpi))
      [] name = "mm_to_pt" -> PyInt(MmToPt(n, d, dpi))
      [] name = "cm_to_pt" -> PyInt(CmToPt(n, d, dpi))
      [] name = "px_to_pt" -> PyInt(PxToPt(n, d, dpi))
      [] name = "font_to_pt" -> PyInt(FontToPt(n, d, dpi))
      [] name \in {"none_to_pt", "pt_to_pt"} -> PyInt(NoneToPt(n, d))
      [] name = "pt_to_in" -> PyFloat(n, d * dpi)
      [] OTHER -> PyRaise("TypeError")

\* _to_pt without the configured default: int(val) whatever the unit
ToPtDefaultIgnoringUnit(n, d, dpi, default) == PyInt(NoneToPt(n, d))

\* _Resolution._to_pt : self._default(val)
ToPtDefault(n, d, dpi, default) == CallUnitMethod(default, n, d, dpi)

\* _Resolution._pt_to : self._revert(val)
PtToRevert(n, d, dpi, revert) == CallUnitMethod(revert, n, d, dpi)

\* getattr(self, name)(val) for a name ending in _to_pt
CallByName(name, n, d, dpi, default) ==
    IF ~HasAttr(name) THEN PyRaise("AttributeError")
    ELSE IF name = "_to_pt" THEN ToPtDefault(n, d, dpi, default)
    ELSE CallUnitMethod(name, n, d, dpi)

\* --- _Resolution.FMT_EXP = ([-+]?[0-9]*\.?[0-9]+)([a-z]*), used with match
DigitChars == {"0", "1", "2", "3", "4", "5", "6", "7", "8", "9"}
LetterChars ==
    {"a", "b", "c", "d", "e", "f", "g", "h", "i", "j", "k", "l", "m", "n",
     "o", "p", "q", "r", "s", "t", "u", "v", "w", "x", "y", "z"}

DigitValue(c) ==
    CASE c = "0" -> 0 [] c = "1" -> 1 [] c = "2" -> 2 [] c = "3" -> 3
      [] c = "4" -> 4 [] c = "5" -> 5 [] c = "6" -> 6 [] c = "7" -> 7
      [] c = "8" -> 8 [] c = "9" -> 9

\* The length of the longest run of characters of S in chars from position i
RECURSIVE RunLen(_, _, _)
RunLen(chars, i, S) ==
    IF i <= Len(chars) /\ chars[i] \in S THEN 1 + RunLen(chars, i + 1, S) ELSE 0

\* Where [0-9]*\.?[0-9]+ ends (the position after it) when tried at
\* position p, 0 when it does not match there: digits, then a point only
\* if digits follow it.
NumberEnd(chars, p) ==
    LET d1 == RunLen(chars, p, DigitChars)
        q == p + d1
        d2 == IF q <= Len(chars) /\ chars[q] = "."
              THEN RunLen(chars, q + 1, DigitChars) ELSE 0
    IN  IF d2 > 0 THEN q + 1 + d2 ELSE IF d1 > 0 THEN q ELSE 0

\* FMT_EXP.match(value) : [ok, group1, group2]
FmtMatch(chars) ==
    LET signed == Len(chars) >= 1 /\ chars[1] \in {"-", "+"}
        e == NumberEnd(chars, IF signed THEN 2 ELSE 1)
    IN  IF e = 0 THEN [ok |-> FALSE, g1 |-> <<>>, g2 |-> <<>>]
        ELSE [ok |-> TRUE,
              g1 |-> SubSeq(chars, 1, e - 1),
              g2 |-> SubSeq(chars, e, e + RunLen(chars, e, LetterChars) - 1)]

RECURSIVE DigitsValue(_)
DigitsValue(ds) ==
    IF ds = <<>> THEN 0
    ELSE 10 * DigitsValue(SubSeq(ds, 1, Len(ds) - 1)) + DigitValue(ds[Len(ds)])

RECURSIVE Pow10(_)
Pow10(k) == IF k = 0 THEN 1 ELSE 10 * Pow10(k - 1)

\* float(group1) as the rational <<n, d>>
FloatOf(g1) ==
    LET signed == g1[1] \in {"-", "+"}
        body == IF signed THEN Tail(g1) ELSE g1
        ip == RunLen(body, 1, DigitChars)
        frac == IF ip < Len(body) THEN SubSeq(body, ip + 2, Len(body)) ELSE <<>>
        mag == DigitsValue(SubSeq(body, 1, ip)) * Pow10(Len(frac)) + DigitsValue(frac)
    IN  <<IF g1[1] = "-" THEN -mag ELSE mag, Pow10(Len(frac))>>

\* f"{group2}_to_pt"
RECURSIVE JoinChars(_)
JoinChars(cs) == IF cs = <<>> THEN "" ELSE cs[1] \o JoinChars(Tail(cs))

\* The first exception raised among the results, in order
FirstRaise(rs) == rs[CHOOSE i \in 1..Len(rs) :
                        rs[i].t = "raise" /\ \A j \in 1..(i - 1) : rs[j].t # "raise"]

\* _Resolution.to_pt(value)
RECURSIVE ToPt(_, _, _)
ToPt(v, dpi, default) ==
    CASE v.t \in {"int", "float"} -> ToPtDefault(v.n, v.d, dpi, default)
      [] v.t \in {"tuple", "list"} ->
            LET rs == [i \in 1..Len(v.items) |-> ToPt(v.items[i], dpi, default)]
            IN  IF \E i \in 1..Len(rs) : rs[i].t = "raise" THEN FirstRaise(rs)
                ELSE IF v.t = "tuple" THEN PyTuple(rs) ELSE PyList(rs)
      [] v.t = "str" ->
            LET m == FmtMatch(v.s)
            IN  IF m.ok
                THEN CallByName(JoinChars(m.g2) \o "_to_pt",
                                FloatOf(m.g1)[1], FloatOf(m.g1)[2], dpi, default)
                ELSE PyInt(0)

\* _Resolution.pt_to(value) for a number
PtTo(v, dpi, revert) == PtToRevert(v.n, v.d, dpi, revert)

\* The choices of the exporters' dpi option (OPTIONS_SCHEMA)
DpiChoices == {32, 64, 96, 150, 300, 600, 1200}

\* Units, and the other names a caller may assign to Resolution.unit
UnitNames == {"in", "mm", "cm", "px", "none", "pt", "font", ""}

\* The numbers converted, each with its text
NumTexts ==
    { [chars |-> <<"0">>, n |-> 0, d |-> 1],
      [chars |-> <<"1">>, n |-> 1, d |-> 1],
      [chars |-> <<"1", "2", ".", "5">>, n |-> 25, d |-> 2],
      [chars |-> <<"3", "0", "0">>, n |-> 300, d |-> 1],
      [chars |-> <<"-", "2", ".", "5">>, n |-> -5, d |-> 2] }

\* The unit suffixes for which a "<suffix>_to_pt" method exists
KnownSuffixes ==
    { <<"i", "n">>, <<"m", "m">>, <<"c", "m">>, <<"p", "x">>,
      <<"f", "o", "n", "t">>, <<"p", "t">>, <<"n", "o", "n", "e">> }
NoSuffix == <<>>
UnknownSuffixes == { <<"x", "y">> }

NumInputs == { IF nt.d = 1 THEN PyInt(nt.n) ELSE PyFloat(nt.n, nt.d) : nt \in NumTexts }
StrInputs ==
    { PyStr(nt.chars \o sfx) :
        nt \in NumTexts, sfx \in KnownSuffixes \cup {NoSuffix} \cup UnknownSuffixes }
ContainerInputs ==
    { PyTuple(<<PyStr(<<"1", "2", ".", "5", "i", "n">>), PyInt(12),
                PyStr(<<"1", "2", ".", "5", "p", "x">>)>>),
      PyList(<<PyFloat(25, 2), PyTuple(<<PyInt(1), PyStr(<<"1", "m", "m">>)>>)>>),
      PyTuple(<<PyFloat(17, 2), PyInt(11)>>),
      PyList(<<>>),
      PyList(<<PyInt(1), PyStr(<<"1", "x", "y">>)>>) }
\* Strings that are not a number followed by letters
MalformedInputs ==
    { PyStr(<<"a", "b", "c">>), PyStr(<<>>), PyStr(<<"1", "2", " ", "i", "n">>) }
ToPtInputs == NumInputs \cup StrInputs \cup ContainerInputs \cup MalformedInputs

NoCallRec == [arg |-> NoCall, res |-> NoCall]

\* _Resolution.__init__
ResInit ==
    /\ rDpi = PRINT_DPI
    /\ rUnit = "none"
    /\ rDefault = "none_to_pt"
    /\ rRevert = "none_to_pt"
    /\ rSet = [unit |-> "none", outcome |-> "init"]
    /\ rCall = NoCallRec
    /\ rBack = NoCall

\* Resolution.unit = u (the unit setter)
SetUnit(u) ==
    /\ ResOnly
    /\ IF u = ""
       THEN /\ rSet' = [unit |-> u, outcome |-> "ignored"]
            /\ UNCHANGED <<rDpi, rUnit, rDefault, rRevert, rCall, rBack>>
       ELSE IF HasAttr(u \o "_to_pt") /\ HasAttr("pt_to_" \o u)
       THEN /\ rDefault' = u \o "_to_pt"
            /\ rRevert' = "pt_to_" \o u
            /\ rUnit' = u
            /\ rSet' = [unit |-> u, outcome |-> "ok"]
            /\ rCall' = NoCallRec
            /\ rBack' = NoCall
            /\ UNCHANGED rDpi
       ELSE /\ rSet' = [unit |-> u, outcome |-> "AttributeError"]
            /\ UNCHANGED <<rDpi, rUnit, rDefault, rRevert, rCall, rBack>>

\* Resolution.dpi = value (the dpi setter), also reached through
\* DrawDecoder.dpi
SetDpi(value) ==
    /\ rDpi' = value
    /\ rCall' = NoCallRec
    /\ rBack' = NoCall
    /\ UNCHANGED <<rUnit, rDefault, rRevert, rSet>>
    /\ ResOnly

\* r = Resolution.to_pt(v)
ToPtCall(v) ==
    /\ rCall' = [arg |-> v, res |-> ToPt(v, rDpi, rDefault)]
    /\ rBack' = NoCall
    /\ UNCHANGED <<rDpi, rUnit, rDefault, rRevert, rSet>>
    /\ ResOnly

\* Resolution.pt_to(r) for the r of the last to_pt call
PtToCall ==
    /\ rCall.res.t = "int"
    /\ rBack = NoCall
    /\ rBack' = PtTo(rCall.res, rDpi, rRevert)
    /\ UNCHANGED <<rDpi, rUnit, rDefault, rRevert, rSet, rCall>>
    /\ ResOnly

ResNext ==
    \/ \E u \in UnitNames : SetUnit(u)
    \/ \E d \in DpiChoices : SetDpi(d)
    \/ \E v \in ToPtInputs : ToPtCall(v)
    \/ PtToCall

\* |a/b - c/d| <= e/f for positive b, d, f
RatAbs(x) == IF x >= 0 THEN x ELSE -x
RatClose(a, b, c, d, e, f) == RatAbs(a * d - c * b) * f <= e * b * d

\* One device pixel in the unit u, as the rational <<n, d>>
PixelSize(u, dpi) ==
    CASE u = "in" -> <<1, dpi>>
      [] u = "mm" -> <<254, 10 * dpi>>
      [] u = "cm" -> <<254, 100 * dpi>>
      [] u = "px" -> <<96, dpi>>

RoundTripValues == {PyInt(0), PyInt(1), PyFloat(25, 2), PyInt(300)}
SupportedUnits == {"in", "mm", "cm", "px"}

\* C8: for every dpi of the export enum and every supported unit (in, mm,
\* cm, px), setting Resolution.unit to that unit succeeds and installs both
\* directions, and then pt_to(to_pt(x)) equals x up to one device pixel for
\* x in {0, 1, 12.5, 300}.
C8_UnitRoundTrip ==
    rSet.unit \in SupportedUnits =>
        /\ rSet.outcome = "ok"
        /\ rUnit = rSet.unit
        /\ rDefault = rSet.unit \o "_to_pt"
        /\ rRevert = "pt_to_" \o rSet.unit
        /\ (rBack # NoCall /\ rCall.arg \in RoundTripValues) =>
              /\ rBack.t \in {"int", "float"}
              /\ RatClose(rBack.n, rBack.d, rCall.arg.n, rCall.arg.d,
                          PixelSize(rUnit, rDpi)[1], PixelSize(rUnit, rDpi)[2])

\* The conversion the unit u stands for, on n/d
ExpectedDefault(u, n, d, dpi) ==
    CASE u = "in" -> Trunc(n * dpi, d)
      [] u \in {"none", "pt"} -> Trunc(n, d)

IsTextOf(v, nt, sfx) == v = PyStr(nt.chars \o sfx)

\* What the claim C9 expects of to_pt(v) under default unit u
RECURSIVE ExpectedToPt(_, _, _)
ExpectedToPt(v, u, dpi) ==
    CASE v.t \in {"int", "float"} -> PyInt(ExpectedDefault(u, v.n, v.d, dpi))
      [] v.t = "str" ->
            LET nt == CHOOSE x \in NumTexts :
                          \E sfx \in KnownSuffixes \cup {NoSuffix} : IsTextOf(v, x, sfx)
                sfx == CHOOSE x \in KnownSuffixes \cup {NoSuffix} : IsTextOf(v, nt, x)
            IN  IF sfx = NoSuffix
                THEN PyInt(ExpectedDefault(u, nt.n, nt.d, dpi))
                ELSE CallUnitMethod(JoinChars(sfx) \o "_to_pt", nt.n, nt.d, dpi)
      [] v.t = "tuple" ->
            PyTuple([i \in 1..Len(v.items) |-> ExpectedToPt(v.items[i], u, dpi)])
      [] v.t = "list" ->
            PyList([i \in 1..Len(v.items) |-> ExpectedToPt(v.items[i], u, dpi)])

\* v is a number, a numeric string with a known unit suffix or none, or a
\* tuple or list of such values
RECURSIVE IsUnitValue(_)
IsUnitValue(v) ==
    CASE v.t \in {"int", "float"} -> TRUE
      [] v.t = "str" ->
            LET m == FmtMatch(v.s)
            IN  m.ok /\ m.g2 \in KnownSuffixes \cup {NoSuffix}
                     /\ Len(m.g1) + Len(m.g2) = Len(v.s)
      [] v.t \in {"tuple", "list"} -> \A i \in 1..Len(v.items) : IsUnitValue(v.items[i])
      [] OTHER -> FALSE

RECURSIVE AllScalarsInt(_)
AllScalarsInt(r) ==
    CASE r.t = "int" -> TRUE
      [] r.t \in {"tuple", "list"} -> \A i \in 1..Len(r.items) : AllScalarsInt(r.items[i])
      [] OTHER -> FALSE

\* C9: to_pt converts a bare number or a numeric string without suffix with
\* the configured default unit, a string with a unit suffix with that
\* suffix whatever the default unit, and a tuple or list into a container
\* of the same type and length of the converted elements; every scalar
\* result is an integer.
C9_ToPtDefaultSuffixShape ==
    (rCall # NoCallRec /\ IsUnitValue(rCall.arg)) =>
        /\ rCall.res = ExpectedToPt(rCall.arg, rUnit, rDpi)
        /\ AllScalarsInt(rCall.res)
        /\ rCall.arg.t \in {"tuple", "list"} =>
              /\ rCall.res.t = rCall.arg.t
              /\ Len(rCall.res.items) = Len(rCall.arg.items)

\* In inches mode at 150 dpi, a tuple holding a bare number and suffixed
\* strings has been converted.
C9_Witness ==
    /\ rUnit = "in"
    /\ rDpi = 150
    /\ rCall.arg.t = "tuple"
    /\ Len(rCall.arg.items) = 3
    /\ rCall.res.t = "tuple"
    /\ rCall.res.items[2] = PyInt(1800)

\* The explicit-suffix conversions as the claim C10 states them
ClaimedSuffixValue(sfx, n, d, dpi) ==
    CASE sfx = <<"i", "n">> -> Trunc(n * dpi, d)
      [] sfx = <<"m", "m">> -> Trunc(n * 10 * dpi, d * 254)
      [] sfx = <<"c", "m">> -> Trunc(n * 10 * 10 * dpi, d * 254)
      [] sfx = <<"p", "x">> -> Trunc(n * dpi, d * 96)
      [] sfx = <<"f", "o", "n", "t">> -> Trunc(n * dpi, d * 72)

\* C10: for every dpi, n in -> trunc(n*dpi), n mm -> trunc((n/25.4)*dpi),
\* n cm -> the value of 10n mm, n px -> trunc((n/96)*dpi) (one px is one
\* device pixel at dpi 96), and font_to_pt(s) = trunc((s/72)*dpi).
C10_ExplicitSuffixConversions ==
    \A nt \in NumTexts :
        \A sfx \in {<<"i", "n">>, <<"m", "m">>, <<"c", "m">>, <<"p", "x">>,
                    <<"f", "o", "n", "t">>} :
            IsTextOf(rCall.arg, nt, sfx) =>
                rCall.res = PyInt(ClaimedSuffixValue(sfx, nt.n, nt.d, rDpi))

\* The whole of chars is a number followed by letters
HasNumberLettersForm(chars) ==
    LET m == FmtMatch(chars)
    IN  m.ok /\ Len(m.g1) + Len(m.g2) = Len(chars)

\* C11: to_pt never raises for a number or a string: a numeric string whose
\* unit suffix is missing or is not a known unit is converted with the
\* default-unit conversion, and a string that is not a number followed by
\* letters gives 0.
C11_ToPtNeverRaises ==
    (rCall # NoCallRec /\ rCall.arg.t \in {"int", "float", "str"}) =>
        /\ rCall.res.t = "int"
        /\ (rCall.arg.t = "str" /\ HasNumberLettersForm(rCall.arg.s)
              /\ FmtMatch(rCall.arg.s).g2 \notin KnownSuffixes) =>
                 LET x == FloatOf(FmtMatch(rCall.arg.s).g1)
                 IN  rCall.res = PyInt(ExpectedDefault(rUnit, x[1], x[2], rDpi))
        /\ (rCall.arg.t = "str" /\ ~HasNumberLettersForm(rCall.arg.s)) =>
                 rCall.res = PyInt(0)

\* ------------------------------------------------------------------------
\* lib/print/decoder_base.py, lib/print/draw.py : DrawDecoder
\* lib/html/htmlutil.py : HtmlEncoder
\* ------------------------------------------------------------------------

\* The classes of the objects dispatched: SubPlain derives from Plain and
\* SubWidget from Widget; Widget defines __draw__ and __html__.
Classes == {"Plain", "SubPlain", "Widget", "SubWidget"}
BaseClass(c) ==
    CASE c = "SubPlain" -> "Plain"
      [] c = "SubWidget" -> "Widget"
      [] OTHER -> "none"
\* The functions registered as handlers
HandlerIds == {"f", "g"}

\* hasattr(obj, '__draw__') and hasattr(obj, '__html__') : the attribute is
\* found on the class or on a base class
HasRenderMethod(c) == c \in {"Widget", "SubWidget"}

\* A lookup that falls back to the handler of the base class
GetHandlerThroughBases(handlers, c) ==
    IF handlers[c] # "none" THEN handlers[c]
    ELSE IF BaseClass(c) # "none" THEN handlers[BaseClass(c)]
    ELSE "none"

\* DecoderBase.get_handler : self._handlers.get(_type)
GetHandler(handlers, c) == handlers[c]

\* DecoderBase.override(_type)(func) and HtmlEncoder.override(_type)(func)
Registered(handlers, c, h) == [handlers EXCEPT ![c] = h]

\* The dispatch of DrawDecoder.draw for an object of class c
DrawDispatch(handlers, c) ==
    IF GetHandler(handlers, c) # "none"
    THEN [via |-> "handler", handler |-> GetHandler(handlers, c), named |-> "none"]
    ELSE IF HasRenderMethod(c)
    THEN [via |-> "method", handler |-> "none", named |-> "none"]
    ELSE [via |-> "ValueError", handler |-> "none", named |-> c]

\* The dispatch of HtmlEncoder.to_html for an object of class c
HtmlDispatch(handles, c) ==
    IF handles[c] # "none"
    THEN [via |-> "handler", handler |-> handles[c], named |-> "none"]
    ELSE IF HasRenderMethod(c)
    THEN [via |-> "method", handler |-> "none", named |-> "none"]
    ELSE [via |-> "ValueError", handler |-> "none", named |-> c]

NoDispatch ==
    [decoder |-> "none", cls |-> "none", via |-> "none", handler |-> "none",
     named |-> "none", result |-> "none"]

RegInit ==
    /\ dHandlers = [c \in Classes |-> "none"]
    /\ hHandles = [c \in Classes |-> "none"]
    /\ dLast = NoDispatch

\* @ImageDrawer.override(c) def h
DrawOverride(c, h) ==
    /\ dHandlers' = Registered(dHandlers, c, h)
    /\ dLast' = NoDispatch
    /\ UNCHANGED hHandles
    /\ RegOnly

\* @HtmlEncoder.override(c) def h
HtmlOverride(c, h) ==
    /\ hHandles' = Registered(hHandles, c, h)
    /\ dLast' = NoDispatch
    /\ UNCHANGED dHandlers
    /\ RegOnly

\* next(ImageDrawer.draw(obj)) for obj of class c whose renderer returns
\* one image
DrawFirst(c) ==
    /\ LET disp == DrawDispatch(dHandlers, c)
       IN  dLast' = [decoder |-> "draw", cls |-> c, via |-> disp.via,
                     handler |-> disp.handler, named |-> disp.named,
                     result |-> IF disp.via = "ValueError" THEN "raise" ELSE "image"]
    /\ UNCHANGED <<dHandlers, hHandles>>
    /\ RegOnly

\* HtmlEncoder.to_html(obj) for obj of class c whose renderer returns ret
ToHtml(c, ret) ==
    /\ LET disp == HtmlDispatch(hHandles, c)
       IN  dLast' = [decoder |-> "html", cls |-> c, via |-> disp.via,
                     handler |-> disp.handler, named |-> disp.named,
                     result |-> IF disp.via = "ValueError" THEN "raise"
                                ELSE IF ret = "None" THEN "div" ELSE ret]
    /\ UNCHANGED <<dHandlers, hHandles>>
    /\ RegOnly

RegNext ==
    \/ \E c \in Classes, h \in HandlerIds : DrawOverride(c, h)
    \/ \E c \in Classes, h \in HandlerIds : HtmlOverride(c, h)
    \/ \E c \in Classes : DrawFirst(c)
    \/ \E c \in Classes, ret \in {"element", "None"} : ToHtml(c, ret)

\* The registry the last dispatch went through
RegistryOf(decoder) == IF decoder = "draw" THEN dHandlers ELSE hHandles

\* C6: DrawDecoder.draw(obj) and HtmlEncoder.to_html(obj) invoke the handler
\* registered for exactly type(obj) when there is one (even when obj can
\* render itself, and never the handler of a base class); else the
\* object's own __draw__ / __html__; else they fail with a ValueError that
\* names type(obj), and no handler runs.
C6_DispatchRule ==
    dLast.decoder # "none" =>
        LET reg == RegistryOf(dLast.decoder)
            c == dLast.cls
        IN  /\ reg[c] # "none" =>
                  dLast.via = "handler" /\ dLast.handler = reg[c]
            /\ (reg[c] = "none" /\ c \in {"Widget", "SubWidget"}) =>
                  dLast.via = "method" /\ dLast.handler = "none"
            /\ (reg[c] = "none" /\ c \in {"Plain", "SubPlain"}) =>
                  /\ dLast.via = "ValueError"
                  /\ dLast.named = c
                  /\ dLast.handler = "none"
                  /\ dLast.result = "raise"

\* An object of a subclass was drawn while only its base class had a
\* handler, and it rendered itself.
C6_Witness ==
    /\ dLast.decoder = "draw"
    /\ dLast.cls = "SubWidget"
    /\ dHandlers["Widget"] = "f"
    /\ dHandlers["SubWidget"] = "none"
    /\ dLast.via = "method"

\* ------------------------------------------------------------------------
\* lib/print/draw.py : DrawDecoder.draw as a generator
\* ------------------------------------------------------------------------

\* The number of draw calls whose generators are followed
MaxPasses == 2

\* What a handler or a __draw__ method may return: a generator, list or
\* tuple of pages, a str, bytes, a PIL image, a lib.print.draw.Image
\* wrapper or None.  len is the number of elements an iteration would give.
RetValues ==
    { [kind |-> "generator", len |-> 2], [kind |-> "generator", len |-> 0],
      [kind |-> "list", len |-> 2], [kind |-> "tuple", len |-> 1],
      [kind |-> "str", len |-> 2], [kind |-> "bytes", len |-> 1],
      [kind |-> "pil", len |-> 0], [kind |-> "wrapper", len |-> 0],
      [kind |-> "None", len |-> 0] }

\* hasattr(ret, '__iter__')
HasIter(kind) == kind \in {"generator", "list", "tuple", "str", "bytes"}

\* A test that forgets the exclusion of str, bytes and images
IsFlattenedWithoutExclusion(kind) == HasIter(kind)

\* DrawDecoder.draw : hasattr(ret, '__iter__') and not isinstance(ret,
\* (str, bytes, PIL.Image.Image)), the test for `yield from ret`
IsFlattened(kind) == HasIter(kind) /\ kind \notin {"str", "bytes", "pil"}

\* The i-th element of ret (i >= 1), or ret itself (i = 0)
Yielded(i, ret) == [idx |-> i, of |-> ret]

NoRet == [kind |-> "none", len |-> 0]
NoPass ==
    [state |-> "none", cls |-> "none", via |-> "none", ret |-> NoRet,
     gen |-> 0, pos |-> 0, out |-> <<>>]

\* The registrations made when the print modules are imported: a handler
\* for Plain and one for Widget
ImportedHandlers ==
    [c \in Classes |-> CASE c = "Plain" -> "f" [] c = "Widget" -> "g" [] OTHER -> "none"]

PassInit ==
    /\ fPasses = [p \in 1..MaxPasses |-> NoPass]
    /\ fGens = <<>>
    /\ fCalls = 0

\* g = ImageDrawer.draw(obj) for obj of class c: a generator is created and
\* none of its code runs
DrawCall(p, c) ==
    /\ fPasses[p].state = "none"
    /\ fPasses' = [fPasses EXCEPT ![p] = [NoPass EXCEPT !.state = "new", !.cls = c]]
    /\ UNCHANGED <<fGens, fCalls>>
    /\ PassOnly

\* The pass after its generator is resumed with the result r in hand:
\* `yield from ret` gives the next element, `yield ret` gives ret once, and
\* the generator ends after that.
Resumed(pass, r, gen, cursor) ==
    IF IsFlattened(r.kind)
    THEN IF cursor < r.len
         THEN [pass EXCEPT !.state = "active", !.ret = r, !.gen = gen,
                           !.pos = cursor + 1,
                           !.out = Append(pass.out, Yielded(cursor + 1, r))]
         ELSE [pass EXCEPT !.state = "done", !.ret = r, !.gen = gen]
    ELSE IF pass.pos = 0
         THEN [pass EXCEPT !.state = "active", !.ret = r, !.gen = gen, !.pos = 1,
                           !.out = Append(pass.out, Yielded(0, r))]
         ELSE [pass EXCEPT !.state = "done"]

\* The first next(g): the dispatch, the call of the handler or of __draw__
\* (which returns r; a generator it returns is a new object), and the run
\* up to the first yield
PassFirstNext(p, r) ==
    /\ fPasses[p].state = "new"
    /\ LET disp == DrawDispatch(dHandlers, fPasses[p].cls)
           pass == [fPasses[p] EXCEPT !.via = disp.via]
       IN  IF disp.via = "ValueError"
           THEN /\ fPasses' = [fPasses EXCEPT ![p] = [pass EXCEPT !.state = "raised"]]
                /\ UNCHANGED <<fGens, fCalls>>
           ELSE /\ fCalls' = fCalls + 1
                /\ IF r.kind = "generator"
                   THEN /\ fGens' = Append(fGens, IF 0 < r.len THEN 1 ELSE 0)
                        /\ fPasses' = [fPasses EXCEPT
                                          ![p] = Resumed(pass, r, Len(fGens) + 1, 0)]
                   ELSE /\ fGens' = fGens
                        /\ fPasses' = [fPasses EXCEPT ![p] = Resumed(pass, r, 0, 0)]
    /\ PassOnly

\* A later next(g): the generator resumes after its last yield
PassNext(p) ==
    /\ fPasses[p].state = "active"
    /\ LET pass == fPasses[p]
           cursor == IF pass.gen # 0 THEN fGens[pass.gen] ELSE pass.pos
           after == Resumed(pass, pass.ret, pass.gen, cursor)
       IN  /\ fPasses' = [fPasses EXCEPT ![p] = after]
           /\ fGens' = IF pass.gen # 0 /\ after.state = "active"
                       THEN [fGens EXCEPT ![pass.gen] = cursor + 1]
                       ELSE fGens
    /\ UNCHANGED fCalls
    /\ PassOnly

PassNextStep ==
    \/ \E p \in 1..MaxPasses, c \in {"Plain", "SubPlain", "SubWidget"} : DrawCall(p, c)
    \/ \E p \in 1..MaxPasses, r \in RetValues : PassFirstNext(p, r)
    \/ \E p \in 1..MaxPasses : PassNext(p)

\* What the claim C7 expects draw to yield for the return value r
ExpectedYields(r) ==
    IF r.kind \in {"generator", "list", "tuple"}
    THEN [i \in 1..r.len |-> Yielded(i, r)]
    ELSE <<Yielded(0, r)>>

IsPrefix(a, b) == Len(a) <= Len(b) /\ SubSeq(b, 1, Len(a)) = a

Started(p) == fPasses[p].state \in {"active", "done"}

\* C7: for every handler return value r, DrawDecoder.draw yields each
\* element of r once and in order when r is an iterable that is not a str,
\* bytes or PIL image, and otherwise r itself, once; each draw call invokes
\* the handler anew, so two passes consume independent generators.
C7_FlattenOrSingle ==
    /\ \A p \in 1..MaxPasses :
          Started(p) =>
              /\ IsPrefix(fPasses[p].out, ExpectedYields(fPasses[p].ret))
              /\ fPasses[p].state = "done" =>
                    fPasses[p].out = ExpectedYields(fPasses[p].ret)
    /\ fCalls = Cardinality({p \in 1..MaxPasses : Started(p)})
    /\ \A p, q \in 1..MaxPasses :
          (p # q /\ Started(p) /\ Started(q) /\ fPasses[p].gen # 0) =>
              fPasses[p].gen # fPasses[q].gen

\* Two passes each drained a two-page generator of their own to the end.
C7_Witness ==
    /\ \A p \in 1..2 :
          /\ fPasses[p].state = "done"
          /\ fPasses[p].ret = [kind |-> "generator", len |-> 2]
          /\ Len(fPasses[p].out) = 2
    /\ \E p \in 1..MaxPasses : fPasses[p].via = "method"

\* ------------------------------------------------------------------------
\* lib/print/wall_cal.py, lib/print/desk_cal.py : DrawCalendar
\* ------------------------------------------------------------------------

\* Calendar.__init__ : one MonthInfo for each i in range(1, 13)
NumMonths == 12

PageOf(kind, m) == [kind |-> kind, m |-> m]
ItemOf(kind, page) == [kind |-> kind, page |-> page]

\* What iterating ImageDrawer.draw(obj) gives when the handler of obj
\* returns one value of the given kind for the page
SubDraw(kind, page) == IF IsFlattened(kind) THEN <<>> ELSE <<ItemOf(kind, page)>>

\* The loop body with the two sub-draws exchanged
WallPairMonthFirst(k) == <<PageOf("month", k), PageOf("art", k)>>

\* wall_cal.DrawCalendar, the body of `for page in self.pages`: the art
\* page, then the month page
WallPair(k) == <<PageOf("art", k), PageOf("month", k)>>

\* wall_cal.DrawCalendar : the sub-draws in the order they are made
RECURSIVE WallPairs(_)
WallPairs(k) == IF k = 0 THEN <<>> ELSE WallPairs(k - 1) \o WallPair(k)
WallProgram == <<PageOf("front", 0)>> \o WallPairs(NumMonths)

\* A DrawCalendar that renders every remaining page when first resumed
\* (a list built before the first page is handed over)
RenderedOnResumeEagerly(program, pos) == SubSeq(program, pos + 1, Len(program))

\* The sub-draws a resumed wall DrawCalendar runs before it yields again:
\* the next one
RenderedOnResume(program, pos) == <<program[pos + 1]>>

\* wall_cal.DrawFrontPage, DrawCalendarArt, DrawMonth return page.page.image
WallHandlerReturns == "pil"

\* ImageDrawer.draw(obj) returns the generator of the generator function
\* DrawDecoder.draw; nothing of it has run
DrawCallReturns == "generator"

\* lib.print.draw.Image.__init__(image)
ImageInit(kind) ==
    IF kind \in {"str", "pil"} THEN "ok" ELSE "TypeError"

\* DeskCalendarPage.__init__(page) : self._page
DeskCalendarPageOf(kind) == IF kind = "None" THEN "wrapper" ELSE kind

GenInit ==
    /\ gVariant = "none"
    /\ gState = "none"
    /\ gPos = 0
    /\ gRendered = <<>>
    /\ gHeld = <<>>
    /\ gOut = <<>>

\* imgs = <variant>.ImageDrawer.draw(calendar)
StartDraw(v) ==
    /\ gState \in {"none", "done", "raised", "closed"}
    /\ gVariant' = v
    /\ gState' = "created"
    /\ gPos' = 0
    /\ gRendered' = <<>>
    /\ gHeld' = <<>>
    /\ gOut' = <<>>
    /\ GenOnly

\* The consumer asks for the next page: next(imgs)
Pull ==
    /\ gState \in {"created", "suspended"}
    /\ gState' = "running"
    /\ UNCHANGED <<gVariant, gPos, gRendered, gHeld, gOut>>
    /\ GenOnly

\* The consumer stops iterating
StopIterating ==
    /\ gState \in {"created", "suspended"}
    /\ gState' = "closed"
    /\ UNCHANGED <<gVariant, gPos, gRendered, gHeld, gOut>>
    /\ GenOnly

\* wall_cal.DrawCalendar runs from where it was suspended
WallRun ==
    /\ gVariant = "wall"
    /\ gState = "running"
    /\ gHeld = <<>>
    /\ IF gPos < Len(WallProgram)
       THEN LET pages == RenderedOnResume(WallProgram, gPos)
                items == [i \in 1..Len(pages) |->
                             SubDraw(WallHandlerReturns, pages[i])[1]]
            IN  /\ gRendered' = gRendered \o pages
                /\ gHeld' = items
                /\ gPos' = gPos + Len(pages)
                /\ UNCHANGED gState
       ELSE /\ gState' = "done"
            /\ UNCHANGED <<gPos, gRendered, gHeld>>
    /\ UNCHANGED <<gVariant, gOut>>
    /\ GenOnly

\* desk_cal.DrawCalendar runs from where it was suspended
DeskRun ==
    /\ gVariant = "desk"
    /\ gState = "running"
    /\ gHeld = <<>>
    /\ IF gPos = 0
       THEN /\ gHeld' = <<ItemOf(DrawCallReturns, PageOf("front", 0))>>
            /\ gPos' = 1
            /\ UNCHANGED gState
       ELSE IF gPos <= NumMonths
       THEN LET img == DrawCallReturns
                cal == DrawCallReturns
                calpage == DeskCalendarPageOf(img)
            IN  IF ImageInit(cal) = "TypeError"
                THEN /\ gState' = "raised"
                     /\ UNCHANGED <<gPos, gHeld>>
                ELSE /\ gHeld' = <<ItemOf(calpage, PageOf("composite", gPos))>>
                     /\ gPos' = gPos + 1
                     /\ UNCHANGED gState
       ELSE /\ gState' = "done"
            /\ UNCHANGED <<gPos, gHeld>>
    /\ UNCHANGED <<gVariant, gRendered, gOut>>
    /\ GenOnly

\* wall_cal_v2.DrawCalendar runs from where it was suspended: it yields
\* what ImageDrawer.draw(front_page) and ImageDrawer.draw(page.art) return,
\* and draws no month
WallV2Run ==
    /\ gVariant = "wall_v2"
    /\ gState = "running"
    /\ gHeld = <<>>
    /\ IF gPos = 0
       THEN /\ gHeld' = <<ItemOf(DrawCallReturns, PageOf("front", 0))>>
            /\ gPos' = 1
            /\ UNCHANGED gState
       ELSE IF gPos <= NumMonths
       THEN /\ gHeld' = <<ItemOf(DrawCallReturns, PageOf("art", gPos))>>
            /\ gPos' = gPos + 1
            /\ UNCHANGED gState
       ELSE /\ gState' = "done"
            /\ UNCHANGED <<gPos, gHeld>>
    /\ UNCHANGED <<gVariant, gRendered, gOut>>
    /\ GenOnly

\* The generator yields an item to the consumer and is suspended
YieldItem ==
    /\ gState = "running"
    /\ gHeld # <<>>
    /\ gOut' = Append(gOut, Head(gHeld))
    /\ gHeld' = Tail(gHeld)
    /\ gState' = "suspended"
    /\ UNCHANGED <<gVariant, gPos, gRendered>>
    /\ GenOnly

GenNext ==
    \/ \E v \in {"wall", "desk", "wall_v2"} : StartDraw(v)
    \/ Pull
    \/ StopIterating
    \/ WallRun
    \/ DeskRun
    \/ WallV2Run
    \/ YieldItem

\* The 25 wall pages in the order the claim C3 states
ExpectedWallPages ==
    [i \in 1..25 |->
        IF i = 1 THEN PageOf("front", 0)
        ELSE IF i % 2 = 0 THEN PageOf("art", i \div 2)
        ELSE PageOf("month", (i - 1) \div 2)]

PagesOf(items) == [i \in 1..Len(items) |-> items[i].page]

\* C3: iterating wall_cal.ImageDrawer.draw(calendar) yields exactly 25 page
\* images: the front page, then for each of the 12 pages entries in calendar
\* order the art page immediately followed by the month page.
C3_WallPagesInOrder ==
    gVariant = "wall" =>
        /\ IsPrefix(PagesOf(gOut), ExpectedWallPages)
        /\ \A i \in 1..Len(gOut) : gOut[i].kind = "pil"
        /\ gState # "raised"
        /\ gState = "done" => PagesOf(gOut) = ExpectedWallPages

\* The wall generator has been drained.
C3_Witness ==
    /\ gVariant = "wall"
    /\ gState = "done"
    /\ Len(gOut) = 25

\* The 13 desk pages the claim C4 states
ExpectedDeskPages ==
    [i \in 1..13 |-> IF i = 1 THEN PageOf("front", 0) ELSE PageOf("composite", i - 1)]

\* C4: iterating desk_cal.ImageDrawer.draw(calendar) yields exactly 13 page
\* images, the cover and then one composite page for each month in order,
\* each an image or an image wrapper that the desk exporter can save.
C4_DeskPagesSaveable ==
    gVariant = "desk" =>
        /\ IsPrefix(PagesOf(gOut), ExpectedDeskPages)
        /\ \A i \in 1..Len(gOut) : gOut[i].kind \in {"pil", "wrapper"}
        /\ gState # "raised"
        /\ gState = "done" => PagesOf(gOut) = ExpectedDeskPages

\* C5: the wall pages are rendered on demand: a page is laid out and drawn
\* only while the consumer waits for it, so at most one rendered page is
\* not yet handed over, and a consumer that has received k pages (and may
\* have stopped) has caused exactly k pages to be rendered.
C5_PullDriven ==
    gVariant = "wall" =>
        /\ gRendered = PagesOf(gOut) \o PagesOf(gHeld)
        /\ Len(gHeld) <= 1
        /\ gState # "running" => Len(gRendered) = Len(gOut)

\* The consumer stopped after three pages and three pages were rendered.
C5_Witness ==
    /\ gVariant = "wall"
    /\ gState = "closed"
    /\ Len(gOut) = 3
    /\ Len(gRendered) = 3

\* C24: every element that wall_cal_v2.ImageDrawer.draw(calendar) yields
\* is a page image that can be saved, never a nested generator; the cover
\* comes first, art pages at the odd indices, month pages at the even
\* indices above 0, 25 pages in all.
C24_WallV2StreamAsExporterAssumes ==
    gVariant = "wall_v2" =>
        /\ IsPrefix(PagesOf(gOut), ExpectedWallPages)
        /\ \A i \in 1..Len(gOut) : gOut[i].kind = "pil"
        /\ gState = "done" => Len(gOut) = 25

\* ------------------------------------------------------------------------
\* lib/print/draw.py : BBox
\* ------------------------------------------------------------------------

\* The integers the boxes are built from and transformed by: negative,
\* zero and positive, deltas larger than the sizes included
Coords == {-3, 0, 7}
Sizes == {-2, 0, 1, 5}
Deltas == {-4, -1, 0, 2, 9}

\* BBox.__new__(*args) : the tuple (left, top, right, bottom)
BBox(l, t, r, b) == <<l, t, r, b>>

\* BBox.new(x, y, w, h)
BBoxNew(x, y, w, h) == BBox(x, y, x + w, y + h)

\* BBox.width, BBox.height
Width(box) == box[3] - box[1]
Height(box) == box[4] - box[2]

\* BBox.move(x, y)
Move(box, x, y) == BBox(box[1] + x, box[2] + y, box[3] + x, box[4] + y)

\* A shrink that stops where the box would become inverted
ShrinkClamped(box, val) ==
    IF 2 * val > Width(box) \/ 2 * val > Height(box) THEN box
    ELSE BBox(box[1] + val, box[2] + val, box[3] - val, box[4] - val)

\* BBox.shrink(val)
Shrink(box, val) == BBox(box[1] + val, box[2] + val, box[3] - val, box[4] - val)

NoBox == <<>>
NoBoxOp == [op |-> "none", a |-> <<>>, recv |-> NoBox, res |-> NoBox, back |-> NoBox]

BoxInit ==
    /\ bBox = NoBox
    /\ bOp = NoBoxOp

\* box = BBox.new(x, y, w, h)
NewBox(x, y, w, h) ==
    /\ bBox' = BBoxNew(x, y, w, h)
    /\ bOp' = [op |-> "new", a |-> <<x, y, w, h>>, recv |-> bBox',
               res |-> bBox', back |-> bBox']
    /\ BoxOnly

\* r = box.move(dx, dy) ; back = r.move(-dx, -dy)
MoveBox(dx, dy) ==
    /\ bBox # NoBox
    /\ LET r == Move(bBox, dx, dy)
       IN  bOp' = [op |-> "move", a |-> <<dx, dy>>, recv |-> bBox,
                   res |-> r, back |-> Move(r, -dx, -dy)]
    /\ UNCHANGED bBox
    /\ BoxOnly

\* r = box.shrink(d) ; back = r.shrink(-d)
ShrinkBox(d) ==
    /\ bBox # NoBox
    /\ LET r == Shrink(bBox, d)
       IN  bOp' = [op |-> "shrink", a |-> <<d>>, recv |-> bBox,
                   res |-> r, back |-> Shrink(r, -d)]
    /\ UNCHANGED bBox
    /\ BoxOnly

BoxNext ==
    \/ \E x \in Coords, y \in Coords, w \in Sizes, h \in Sizes : NewBox(x, y, w, h)
    \/ \E dx \in Deltas, dy \in Deltas : MoveBox(dx, dy)
    \/ \E d \in Deltas : ShrinkBox(d)

\* C12: BBox.new(x,y,w,h) has width w and height h; move(dx,dy) then
\* move(-dx,-dy) and shrink(d) then shrink(-d) give the box back;
\* shrink(d) changes width and height by exactly -2d without clamping;
\* move and shrink leave the receiver as it was.
C12_BBoxAlgebra ==
    /\ bOp.op = "new" =>
          Width(bOp.res) = bOp.a[3] /\ Height(bOp.res) = bOp.a[4]
    /\ bOp.op = "move" =>
          bOp.back = bOp.recv /\ bBox = bOp.recv
    /\ bOp.op = "shrink" =>
          /\ bOp.back = bOp.recv
          /\ bBox = bOp.recv
          /\ Width(bOp.res) = Width(bOp.recv) - 2 * bOp.a[1]
          /\ Height(bOp.res) = Height(bOp.recv) - 2 * bOp.a[1]

\* A box of positive size was shrunk by more than half its size and the
\* result is inverted.
C12_Witness ==
    /\ bOp.op = "shrink"
    /\ Width(bOp.recv) > 0
    /\ Height(bOp.recv) > 0
    /\ Width(bOp.res) < 0
    /\ Height(bOp.res) < 0

\* ------------------------------------------------------------------------
\* lib/print/draw.py : Image.new, Draw.__init__, Draw.rectangle
\* An image object is its mode and the value of one colour channel of the
\* pixels inside the rectangle drawn; the rounding of the imaging library
\* is not modelled.
\* ------------------------------------------------------------------------

\* The number of rectangle calls followed on one Draw
MaxRects == 2

ImageModes == {"RGB", "RGBA"}
ChannelValues == {0, 90, 255}
AlphaValues == {0, 128, 255}

\* _has_alpha(color) for a fill (r, g, b, a)
HasAlpha(fill) == fill.a < 255

\* image.paste(overlay, (0, 0), overlay) on one channel: the overlay pixel
\* weighted by its own alpha over the pixel below
Blend(below, fill) == (fill.c * fill.a + below * (255 - fill.a)) \div 255

\* PIL.Image.new(mode, size, color) ; base.convert('RGBA') : a new object
ImageObject(mode, px) == [mode |-> mode, px |-> px]

NoRect == [kind |-> "none", fill |-> [c |-> 0, a |-> 0], before |-> 0]

ImgInit ==
    /\ iHeap = <<>>
    /\ iPage = 0
    /\ iDraw = 0
    /\ iRects = 0
    /\ iLast = NoRect

\* page = Image.new(size, mode, color) ; draw = Draw(page)
NewPageImage(mode, color) ==
    /\ iHeap' = <<ImageObject(mode, color)>>
    /\ iPage' = 1
    /\ iDraw' = 1
    /\ iRects' = 0
    /\ iLast' = NoRect
    /\ ImgOnly

\* draw.rectangle(bbox, fill=(c, c, c, a))
Rectangle(fill) ==
    /\ iPage # 0
    /\ iRects < MaxRects
    /\ iRects' = iRects + 1
    /\ iLast' = [kind |-> IF HasAlpha(fill) THEN "alpha" ELSE "opaque",
                 fill |-> fill, before |-> iHeap[iPage].px]
    /\ IF HasAlpha(fill)
       THEN LET base == iHeap[iDraw]
                converted == base.mode # "RGBA"
                heap == IF converted
                        THEN Append(iHeap, ImageObject("RGBA", base.px))
                        ELSE iHeap
                target == IF converted THEN Len(heap) ELSE iDraw
            IN  /\ iDraw' = target
                /\ iHeap' = [heap EXCEPT ![target].px = Blend(heap[target].px, fill)]
       ELSE /\ iHeap' = [iHeap EXCEPT ![iDraw].px = fill.c]
            /\ UNCHANGED iDraw
    /\ UNCHANGED iPage
    /\ ImgOnly

ImgNext ==
    \/ \E mode \in ImageModes, color \in ChannelValues : NewPageImage(mode, color)
    \/ \E c \in ChannelValues, a \in AlphaValues : Rectangle([c |-> c, a |-> a])

\* C13: after Draw(img).rectangle(bbox, fill=c) with alpha < 255, the image
\* the Draw was constructed on holds inside bbox the blend of its previous
\* pixels with c (neither unchanged nor the flat fill colour when the fill
\* is half transparent and differs from the pixels), for RGB and for RGBA
\* images.
C13_AlphaRectangleBlendsIntoPage ==
    iLast.kind = "alpha" =>
        /\ iHeap[iPage].px = Blend(iLast.before, iLast.fill)
        /\ (iLast.fill.a = 128 /\ iLast.fill.c # iLast.before) =>
              /\ iHeap[iPage].px # iLast.before
              /\ iHeap[iPage].px # iLast.fill.c

\* ------------------------------------------------------------------------
\* lib/print/wall_cal_base.py : DrawCell ; lib/print/wall_cal.py : DrawMonth
\* An image object is its mode and the sequence of marks drawn on it, each
\* mark with the cell it belongs to.
\* ------------------------------------------------------------------------

\* The number of cells of a month page that are followed
MaxCells == 3

\* The Day cells drawn: a padding cell, a plain day, a day with text, with
\* a photo, with both, and with both and a moon phase
CellDays ==
    { Day(None, None, None, None),
      Day(Some(1), None, None, None),
      Day(Some(1), None, Some("text"), None),
      Day(Some(1), Some("photo"), None, None),
      Day(Some(1), Some("photo"), Some("text"), None),
      Day(Some(1), Some("photo"), Some("text"), Some("full")) }

Mark(k, op) == [cell |-> k, op |-> op]
Canvas(mode, marks) == [mode |-> mode, marks |-> marks]

\* Image.new(size, mode="RGB", color) as WallCalPageBase.__init__ calls it
PageMode == "RGB"

\* The fill of the text background: (0, 0, 0, 100)
BackgroundFill == [c |-> 0, a |-> 100]

\* DrawCell : what is drawn before the text branch
CellMarksFirst(day, k) ==
    (IF day.photo # None THEN <<Mark(k, "photo")>> ELSE <<>>)
    \o (IF day.day # None THEN <<Mark(k, "day")>> ELSE <<>>)
    \o (IF day.moon_phase # None THEN <<Mark(k, "moon")>> ELSE <<>>)

\* DrawCell : the text branch of a cell without photo
CellMarksPlainText(day, k) ==
    IF day.photo = None /\ day.text # None
    THEN <<Mark(k, "dark_text_above_bottom")>> ELSE <<>>

\* DrawCell : the text drawn after the background rectangle
CellMarksOverPhoto(day, k) ==
    IF day.photo # None /\ day.text # None
    THEN <<Mark(k, "white_text_at_bottom")>> ELSE <<>>

CellInit ==
    /\ cHeap = <<>>
    /\ cPage = 0
    /\ cCells = <<>>
    /\ cState = "none"
    /\ cReturned = <<>>

\* DrawMonth : page = CalendarPageLayout() ; the title and the headers
StartMonthPage ==
    /\ cState \in {"none", "returned"}
    /\ cHeap' = <<Canvas(PageMode, <<Mark(0, "title"), Mark(0, "headers")>>)>>
    /\ cPage' = 1
    /\ cCells' = <<>>
    /\ cState' = "drawing"
    /\ cReturned' = <<>>
    /\ CellOnly

\* DrawMonth, one turn of the loop: DrawCell(page, day, pos) on a Draw of
\* its own, then the outline of the cell on the Draw of DrawMonth
DrawCellStep(day) ==
    /\ cState = "drawing"
    /\ Len(cCells) < MaxCells
    /\ LET k == Len(cCells) + 1
           first == CellMarksFirst(day, k) \o CellMarksPlainText(day, k)
           over == CellMarksOverPhoto(day, k)
           h1 == [cHeap EXCEPT ![cPage].marks = @ \o first]
           converted == HasAlpha(BackgroundFill) /\ h1[cPage].mode # "RGBA"
           h2 == IF over = <<>> THEN h1
                 ELSE IF converted
                 THEN Append(h1, Canvas("RGBA",
                          h1[cPage].marks \o <<Mark(k, "background")>> \o over))
                 ELSE [h1 EXCEPT ![cPage].marks =
                          @ \o <<Mark(k, "background")>> \o over]
       IN  /\ cHeap' = [h2 EXCEPT ![cPage].marks = @ \o <<Mark(k, "outline")>>]
           /\ cCells' = Append(cCells, day)
    /\ UNCHANGED <<cPage, cState, cReturned>>
    /\ CellOnly

\* DrawMonth : the outline of the grid ; return page.page.image
ReturnMonthPage ==
    /\ cState = "drawing"
    /\ cHeap' = [cHeap EXCEPT ![cPage].marks = @ \o <<Mark(0, "grid_outline")>>]
    /\ cReturned' = cHeap'[cPage].marks
    /\ cState' = "returned"
    /\ UNCHANGED <<cPage, cCells>>
    /\ CellOnly

CellNext ==
    \/ StartMonthPage
    \/ \E day \in CellDays : DrawCellStep(day)
    \/ ReturnMonthPage

\* The marks of cell k in the returned page, in the order drawn
MarksOfCell(k) ==
    LET idx == {i \in 1..Len(cReturned) : cReturned[i].cell = k}
    IN  {cReturned[i].op : i \in idx}
DrawnBefore(k, a, b) ==
    \E i, j \in 1..Len(cReturned) :
        /\ i < j
        /\ cReturned[i] = Mark(k, a)
        /\ cReturned[j] = Mark(k, b)

\* C14: in the page image the wall Month handler returns, a cell whose Day
\* has a photo and text shows a semi-transparent dark rectangle behind white
\* text at the cell's bottom edge; a cell with text and no photo shows dark
\* text 0.1in above the bottom edge and no background rectangle; a cell
\* without text gets neither.
C14_CellTextBackground ==
    cState = "returned" =>
        \A k \in 1..Len(cCells) :
            LET day == cCells[k]
                marks == MarksOfCell(k)
            IN  /\ (day.photo # None /\ day.text # None) =>
                      /\ DrawnBefore(k, "background", "white_text_at_bottom")
                      /\ "dark_text_above_bottom" \notin marks
                /\ (day.photo = None /\ day.text # None) =>
                      /\ "dark_text_above_bottom" \in marks
                      /\ "background" \notin marks
                      /\ "white_text_at_bottom" \notin marks
                /\ day.text = None =>
                      marks \cap {"background", "white_text_at_bottom",
                                  "dark_text_above_bottom"} = {}

\* ------------------------------------------------------------------------
\* lib/print/draw.py : Draw.get_multiline_text
\* A word is its position in the text and its measured width; a line is
\* the sequence of its words.
\* ------------------------------------------------------------------------

\* The largest number of words of a text
MaxWords == 3

WordWidths == {1, 3, 6}
SpaceWidths == {0, 1}
MaxWidths == {0, 2, 4, 7, 10}

\* The texts: every assignment of widths to at most MaxWords words
WordTexts ==
    UNION { [1..n -> WordWidths] : n \in 0..MaxWords }

Token(i, w) == [id |-> i, w |-> w]

\* text.split(" ") : one token for each word, and the single empty token
\* of the empty text
Split(text) ==
    IF text = <<>> THEN <<Token(0, 0)>>
    ELSE [i \in 1..Len(text) |-> Token(i, text[i])]

RECURSIVE SumWidths(_)
SumWidths(line) == IF line = <<>> THEN 0 ELSE Head(line).w + SumWidths(Tail(line))

\* self.textbbox(candidate, (0, 0), font).width : the words and the spaces
\* between them
Measure(line, space) ==
    IF line = <<>> THEN 0 ELSE SumWidths(line) + space * (Len(line) - 1)

\* f"{current} {token}" if current else token
Candidate(current, token) ==
    IF current # <<>> THEN Append(current, token)
    ELSE IF token.id = 0 THEN <<>> ELSE <<token>>

\* A test that also breaks a line that fits exactly
OverflowsAtLimit(candidate, current, width, space) ==
    Measure(candidate, space) >= width /\ current # <<>>

\* bbox.width > width and current
Overflows(candidate, current, width, space) ==
    Measure(candidate, space) > width /\ current # <<>>

\* The loop over the tokens and the final append
RECURSIVE WrapLoop(_, _, _, _, _, _)
WrapLoop(tokens, i, lines, current, width, space) ==
    IF i > Len(tokens)
    THEN IF current # <<>> THEN Append(lines, current) ELSE lines
    ELSE LET candidate == Candidate(current, tokens[i])
         IN  IF Overflows(candidate, current, width, space)
             THEN WrapLoop(tokens, i + 1, Append(lines, current),
                           Candidate(<<>>, tokens[i]), width, space)
             ELSE WrapLoop(tokens, i + 1, lines, candidate, width, space)

\* Draw.get_multiline_text(text, width, font) : the lines joined by "\n"
GetMultilineText(text, width, space) ==
    WrapLoop(Split(text), 1, <<>>, <<>>, width, space)

NoWrap == [text |-> <<>>, width |-> 0, space |-> 0, lines |-> <<>>, calls |-> 0]

WrapInit == tWrap = NoWrap

\* mtext = draw.get_multiline_text(text, width, font)
WrapText(text, width, space) ==
    /\ tWrap' = [text |-> text, width |-> width, space |-> space,
                 lines |-> GetMultilineText(text, width, space), calls |-> 1]
    /\ WrapOnly

\* The same call once more
WrapTextAgain ==
    /\ tWrap.calls = 1
    /\ tWrap' = [tWrap EXCEPT
                    !.lines = GetMultilineText(tWrap.text, tWrap.width, tWrap.space),
                    !.calls = 2]
    /\ WrapOnly

WrapNext ==
    \/ \E text \in WordTexts, width \in MaxWidths, space \in SpaceWidths :
           WrapText(text, width, space)
    \/ WrapTextAgain

\* The words of the lines, in order
RECURSIVE Flatten(_)
Flatten(lines) == IF lines = <<>> THEN <<>> ELSE Head(lines) \o Flatten(Tail(lines))

PpiValues == {2, 4, 6, 8, 12}
SizeErrors == {-2, -1, 0, 1, 2}

\* The size of the desk page Image.new builds at p pixels per inch:
\* (int(7 * p), int(4.25 * p))
DeskPageSize(p) == [w |-> 7 * p, h |-> Trunc(17 * p, 4)]

ExpandInputs ==
    { [w |-> DeskPageSize(p).w + dw, h |-> DeskPageSize(p).h + dh] :
        p \in PpiValues, dw \in SizeErrors, dh \in SizeErrors }

\* int(round(n / d)) for n >= 0, d > 0 : a tie goes to the even integer
RoundHalfEven(n, d) ==
    LET q == n \div d
        r == n % d
    IN  IF 2 * r < d THEN q
        ELSE IF 2 * r > d THEN q + 1
        ELSE IF q % 2 = 0 THEN q ELSE q + 1

\* ppi = int(round((image.width / 7 + image.height / 4.25) / 2.0)),
\* 300 when that is not positive
DerivedPpi(image) ==
    LET ppi == RoundHalfEven(17 * image.w + 28 * image.h, 238)
    IN  IF ppi <= 0 THEN 300 ELSE ppi

\* tile_w, tile_h, out_w, out_h
TileW(ppi) == RoundHalfEven(7 * ppi, 1)
TileH(ppi) == RoundHalfEven(17 * ppi, 4)
OutW(ppi) == RoundHalfEven(14 * ppi, 1)
OutH(ppi) == RoundHalfEven(17 * ppi, 2)

\* dash_len = max(6, int(round(ppi * 0.03)))
DashLen(ppi) ==
    LET d == RoundHalfEven(3 * ppi, 100)
    IN  IF d > 6 THEN d ELSE 6

\* The dashed lines: a dash from t to t + dash_len, both ends drawn, every
\* 2 * dash_len
OnDash(t, ppi) == t % (2 * DashLen(ppi)) <= DashLen(ppi)

Pixel(k, x, y) == [k |-> k, x |-> x, y |-> y]

\* A bottom row pasted as it is
NotRotated(x, y, tw, th) == Pixel("tile", x, y)

\* img.rotate(180) : the pixel at (x, y) of the rotated tile
Rotated180(x, y, tw, th) == Pixel("tile", tw - 1 - x, th - 1 - y)

\* The pixel at (x, y) of the canvas returned for a tile of the ppi: the
\* four pastes, then the two dashed lines through (tile_w, tile_h)
CanvasPixel(ppi, x, y) ==
    LET tw == TileW(ppi)
        th == TileH(ppi)
    IN  IF (x = tw /\ OnDash(y, ppi)) \/ (y = th /\ OnDash(x, ppi))
        THEN Pixel("black", 0, 0)
        ELSE IF y < th /\ x < 2 * tw
        THEN Pixel("tile", x % tw, y)
        ELSE IF y < 2 * th /\ x < 2 * tw
        THEN Rotated180(x % tw, y - th, tw, th)
        ELSE Pixel("white", 0, 0)

NoExpand ==
    [image |-> [w |-> 0, h |-> 0], ppi |-> 0, resized |-> FALSE,
     tile |-> [w |-> 0, h |-> 0], canvas |-> [w |-> 0, h |-> 0]]

ExpandInit == eCall = NoExpand

\* canvas = expan_to_legal(image)
ExpandToLegal(image) ==
    /\ LET ppi == DerivedPpi(image)
           tile == [w |-> TileW(ppi), h |-> TileH(ppi)]
       IN  eCall' = [image |-> image, ppi |-> ppi,
                     resized |-> (image # tile),
                     tile |-> tile,
                     canvas |-> [w |-> OutW(ppi), h |-> OutH(ppi)]]
    /\ ExpandOnly

ExpandNext == \E image \in ExpandInputs : ExpandToLegal(image)

\* The input is exactly 7in x 4.25in at an integer number p of pixels per
\* inch
ExactDeskPage(image, p) == image.w = 7 * p /\ 4 * image.h = 17 * p

\* (x, y) lies on a dash of one of the two cut guides
OnCutGuide(x, y) ==
    \/ x = eCall.tile.w /\ OnDash(y, eCall.ppi)
    \/ y = eCall.tile.h /\ OnDash(x, eCall.ppi)

\* What the quadrants hold at (x, y) when they are the tile in the top row
\* and the tile rotated by 180 degrees in the bottom row
QuadrantPixel(x, y) ==
    LET tw == eCall.tile.w
        th == eCall.tile.h
    IN  IF y < th THEN Pixel("tile", x % tw, y)
        ELSE Pixel("tile", tw - 1 - (x % tw), th - 1 - (y - th))

\* C16 as stated: for a 7in x 4.25in page at p pixels per inch the canvas
\* is 14p x 8.5p, its top quadrants are the source image and its bottom
\* quadrants the source rotated by 180 degrees, pixel for pixel; an input
\* of another size is resized to the tile size first.
C16_QuadrantsPixelIdentical ==
    eCall # NoExpand =>
        /\ eCall.resized = (eCall.image # eCall.tile)
        /\ \A p \in PpiValues :
              ExactDeskPage(eCall.image, p) =>
                  /\ ~eCall.resized
                  /\ eCall.canvas.w = 14 * p
                  /\ 2 * eCall.canvas.h = 17 * p
                  /\ \A x \in 0..(eCall.canvas.w - 1), y \in 0..(eCall.canvas.h - 1) :
                        CanvasPixel(eCall.ppi, x, y) = QuadrantPixel(x, y)

\* C16, amended: the same, for every pixel that no dash of the two cut
\* guides covers; the dashes, drawn through column tile_w and row tile_h,
\* are black.
C16_QuadrantsOffTheCutGuides ==
    eCall # NoExpand =>
        /\ eCall.resized = (eCall.image # eCall.tile)
        /\ \A p \in PpiValues :
              ExactDeskPage(eCall.image, p) =>
                  /\ ~eCall.resized
                  /\ eCall.canvas.w = 14 * p
                  /\ 2 * eCall.canvas.h = 17 * p
                  /\ \A x \in 0..(eCall.canvas.w - 1), y \in 0..(eCall.canvas.h - 1) :
                        CanvasPixel(eCall.ppi, x, y) =
                            IF OnCutGuide(x, y) THEN Pixel("black", 0, 0)
                            ELSE QuadrantPixel(x, y)

\* A 28 x 17 page (4 pixels per inch) was expanded without a resize: the
\* bottom-left corner of the canvas holds the top-right pixel of the page
\* and the first pixel of the top-right quadrant is a dash.
C16_Witness ==
    /\ eCall.image = [w |-> 28, h |-> 17]
    /\ ~eCall.resized
    /\ eCall.canvas = [w |-> 56, h |-> 34]
    /\ CanvasPixel(eCall.ppi, 0, 33) = Pixel("tile", 27, 0)
    /\ CanvasPixel(eCall.ppi, 28, 0) = Pixel("black", 0, 0)

\* ------------------------------------------------------------------------
\* lib/export/png_exporter.py : PngWallCalendarExporterBase.export,
\* PngDeskCalendarExporterBase.export ; lib/export/exporters.py
\* The generator of pages is followed entry by entry: what the pull of an
\* entry gives is chosen when it is pulled.
\* ------------------------------------------------------------------------

\* The number of entries of the page generator that are followed
MaxPages == 3

JobDpis == {96, 150}
OtherDpis == {300}

\* The export jobs: the exporter, the options dpi and skip_months, whether
\* validate_context accepts the context, whether mkdir succeeds and whether
\* the context has a progress callback
ExportJobs ==
    { [kind |-> "wall", dpi |-> d, skip |-> s, valid |-> v, mkdir |-> TRUE,
       callback |-> cb] :
        d \in JobDpis, s \in BOOLEAN, v \in BOOLEAN, cb \in BOOLEAN }
    \cup
    { [kind |-> "desk", dpi |-> d, skip |-> FALSE, valid |-> v, mkdir |-> m,
       callback |-> cb] :
        d \in JobDpis, v \in BOOLEAN, m \in BOOLEAN, cb \in BOOLEAN }

\* What pulling an entry and saving it may give: an image, None, an
\* exception of the renderer, an image whose save raises
PageOutcomes == {"img", "None", "render_raises", "save_raises"}

\* WallCalPage.WIDTH, HEIGHT ; DeskCalSize.WIDTH, HEIGHT, in inches
LayoutSize(kind) ==
    IF kind = "wall" THEN PyTuple(<<PyInt(11), PyFloat(17, 2)>>)
    ELSE PyTuple(<<PyInt(7), PyFloat(17, 4)>>)

\* Image.new(size=(width, height)) : the pixel size of a layout built
\* under the dpi and the default unit
LayoutPixels(kind, dpi, default) ==
    LET r == ToPt(LayoutSize(kind), dpi, default)
    IN  <<r.items[1].n, r.items[2].n>>

\* ExportResult(success=True, files=[], ...)
NewResult == [success |-> TRUE, files |-> <<>>, errors |-> <<>>]

\* An add_error that records the message and leaves success as it is
AddErrorKeepingSuccess(res, error) == [res EXCEPT !.errors = Append(@, error)]

\* ExportResult.add_error
AddError(res, error) ==
    [res EXCEPT !.errors = Append(@, error), !.success = FALSE]

\* A handler of exceptions that logs the failure and goes on with the loop
OnExceptionContinue(res) ==
    [res |-> AddError(res, [what |-> "failed", tag |-> -1]), pc |-> "loop"]

\* except Exception as e: result.add_error(f"Export failed: {e}") ; the
\* result is returned
OnException(res) ==
    [res |-> AddError(res, [what |-> "failed", tag |-> -1]), pc |-> "returned"]

\* A configuration that leaves Resolution.dpi as it was
DpiLeftAsItWas(old, dpi) == old

\* libdraw.Resolution.dpi = dpi ; ImageDrawer.dpi = dpi
DpiConfigured(old, dpi) == dpi

\* A parity rule that takes the odd indices for month pages
IsOddPage(pageIndex) == pageIndex % 2 = 1

\* is_month_page = page_index > 0 and page_index % 2 == 0
IsMonthPage(pageIndex) == pageIndex > 0 /\ pageIndex % 2 = 0

NoJob == [kind |-> "none", dpi |-> 0, skip |-> FALSE, valid |-> TRUE, mkdir |-> TRUE,
          callback |-> FALSE]

\* estimated_total of the two exporters
EstimatedTotal(kind) == IF kind = "wall" THEN 25 ELSE 13

\* ExportContext.report_progress : the callback is called if there is one
ReportProgress(calls, job, current) ==
    IF job.callback
    THEN Append(calls, [current |-> current, total |-> EstimatedTotal(job.kind)])
    ELSE calls

ExportInit ==
    /\ xJob = NoJob
    /\ xPc = "idle"
    /\ xStream = <<>>
    /\ xOutIdx = 0
    /\ xRes = NewResult
    /\ xOther = FALSE
    /\ xProgress = <<>>

ResKept == UNCHANGED <<rUnit, rDefault, rRevert, rSet, rCall, rBack>>

\* exporter.export(context), up to the loop over the generator
StartExport(job) ==
    /\ xPc \in {"idle", "returned", "raised"}
    /\ xJob' = job
    /\ xStream' = <<>>
    /\ xOutIdx' = 0
    /\ xOther' = FALSE
    /\ xProgress' = <<>>
    /\ IF ~job.valid
       THEN /\ xPc' = "raised"
            /\ xRes' = NewResult
            /\ UNCHANGED rDpi
       ELSE /\ rDpi' = DpiConfigured(rDpi, job.dpi)
            /\ IF job.mkdir
               THEN xRes' = NewResult /\ xPc' = "loop"
               ELSE xRes' = OnException(NewResult).res
                    /\ xPc' = OnException(NewResult).pc
    /\ ResKept
    /\ ExportOnly

\* One turn of `for img in imgs`: the generator renders its next page
\* under the current Resolution, and the body of the loop runs
ExportPage(outcome) ==
    /\ xPc = "loop"
    /\ Len(xStream) < MaxPages
    /\ LET idx == Len(xStream)
           size == LayoutPixels(xJob.kind, rDpi, rDefault)
           skipped == xJob.kind = "wall" /\ xJob.skip /\ IsMonthPage(idx)
           tag == IF xJob.kind = "wall" THEN xOutIdx ELSE idx
       IN  /\ xStream' = Append(xStream, [out |-> outcome, dpi |-> rDpi])
           /\ xProgress' = IF outcome = "render_raises" \/ skipped
                           THEN xProgress
                           ELSE ReportProgress(xProgress, xJob, tag + 1)
           /\ IF outcome = "render_raises"
              THEN /\ xRes' = OnException(xRes).res
                   /\ xPc' = OnException(xRes).pc
                   /\ UNCHANGED xOutIdx
              ELSE IF skipped
              THEN UNCHANGED <<xRes, xPc, xOutIdx>>
              ELSE IF outcome = "None"
              THEN /\ xRes' = AddError(xRes, [what |-> "none_page", tag |-> tag])
                   /\ UNCHANGED <<xPc, xOutIdx>>
              ELSE IF outcome = "save_raises"
              THEN /\ xRes' = OnException(xRes).res
                   /\ xPc' = OnException(xRes).pc
                   /\ UNCHANGED xOutIdx
              ELSE /\ xRes' = [xRes EXCEPT !.files =
                                  Append(@, [name |-> tag, page |-> idx,
                                             size |-> size, meta |-> xJob.dpi])]
                   /\ xOutIdx' = IF xJob.kind = "wall" THEN xOutIdx + 1 ELSE xOutIdx
                   /\ UNCHANGED xPc
    /\ UNCHANGED <<xJob, xOther, rDpi>>
    /\ ResKept
    /\ ExportOnly

\* The generator is exhausted: the metadata are added, the result returned
ExportDrained ==
    /\ xPc = "loop"
    /\ xPc' = "returned"
    /\ UNCHANGED <<xJob, xStream, xOutIdx, xRes, xOther, xProgress, rDpi>>
    /\ ResKept
    /\ ExportOnly

\* Some other code assigns Resolution.dpi while the generator is not
\* drained
OtherDpiWrite(value) ==
    /\ xPc = "loop"
    /\ rDpi' = value
    /\ xOther' = TRUE
    /\ UNCHANGED <<xJob, xPc, xStream, xOutIdx, xRes, xProgress>>
    /\ ResKept
    /\ ExportOnly

ExportNext ==
    \/ \E job \in ExportJobs : StartExport(job)
    \/ \E outcome \in PageOutcomes : ExportPage(outcome)
    \/ ExportDrained
    \/ \E value \in OtherDpis : OtherDpiWrite(value)

\* The entries of the stream, counted from 0, that the loop did not skip
\* and that satisfy out \in outs
Handled(outs) ==
    { i \in 0..(Len(xStream) - 1) :
        /\ xStream[i + 1].out \in outs
        /\ ~(xJob.kind = "wall" /\ xJob.skip /\ IsMonthPage(i)) }

\* The elements of a set of naturals in increasing order
RECURSIVE Sorted(_)
Sorted(S) ==
    IF S = {} THEN <<>>
    ELSE LET m == CHOOSE x \in S : \A y \in S : x <= y
         IN  <<m>> \o Sorted(S \ {m})

NonePageTags ==
    LET idx == {k \in 1..Len(xRes.errors) : xRes.errors[k].what = "none_page"}
    IN  [k \in 1..Cardinality(idx) |-> xRes.errors[Sorted(idx)[k]].tag]

\* C17: whatever pages of the stream are None, every page that is not None
\* and not skipped is saved, one error is recorded for each None page and
\* carries the index of that page in the stream, the loop goes on, and the
\* result has success False while files lists every saved page.
C17_NonePagesReported ==
    (xPc \in {"loop", "returned"}
        /\ \A i \in 1..Len(xStream) : xStream[i].out \in {"img", "None"}) =>
        /\ [k \in 1..Len(xRes.files) |-> xRes.files[k].page] = Sorted(Handled({"img"}))
        /\ NonePageTags = Sorted({i \in 0..(Len(xStream) - 1) : xStream[i + 1].out = "None"})
        /\ (\E i \in 1..Len(xStream) : xStream[i].out = "None") => ~xRes.success

FailedEntries == {k \in 1..Len(xRes.errors) : xRes.errors[k].what = "failed"}

\* The entries of the stream at which an exception was raised
RaisedAt == Handled({"save_raises"})
            \cup {i \in 0..(Len(xStream) - 1) : xStream[i + 1].out = "render_raises"}

C23_ProgressOncePerWrittenPage ==
    (xJob.callback /\ xPc \in {"loop", "returned"}) =>
        /\ Len(xProgress) = Len(xRes.files)
        /\ \A k \in 1..Len(xProgress) :
              /\ xProgress[k].current <= xProgress[k].total
              /\ k > 1 => xProgress[k].current = xProgress[k - 1].current + 1

\* C29: while an export runs and after it, the result has success True
\* exactly when its errors are empty, and once an error was added to the
\* result success does not become True again.
C29_SuccessIffNoErrors ==
    /\ [](xPc \in {"loop", "returned"} => (xRes.success <=> xRes.errors = <<>>))
    /\ [][(xPc = "loop" /\ ~xRes.success) => ~xRes'.success]_vars

C29_Witness ==
    /\ xPc = "returned"
    /\ ~xRes.success
    /\ Len(xRes.errors) = 2
    /\ Len(xRes.files) = 1

\* trunc(WIDTH * d) x trunc(HEIGHT * d) of the layout of an exporter
ExpectedPixels(kind, d) ==
    IF kind = "wall" THEN <<11 * d, (17 * d) \div 2>>
    ELSE <<7 * d, (17 * d) \div 4>>

Event(name) == [cls |-> "Event", name |-> name, image |-> None]
MoonPhaseEvent(name) == [cls |-> "MoonPhase", name |-> name, image |-> None]
Birthday(image, name) == [cls |-> "Birthday", name |-> name, image |-> Some(image)]

\* The dates for which a provider may return events
EventDates == {<<2024, 2, 14>>, <<2026, 2, 1>>}

\* What a provider may yield for one date
EventLists ==
    { <<>>,
      <<Event("Easter")>>,
      <<MoonPhaseEvent("Full Moon")>>,
      <<Event("Easter"), MoonPhaseEvent("Full Moon"), Birthday("ann.jpg", "Ann")>> }

\* The events providers: None, or what get yields for each date
Providers == {None} \cup { Some(f) : f \in [EventDates -> EventLists] }

\* events.get(date) : the events the provider yields for a date
Get(provider, date) ==
    IF date \in DOMAIN provider[1] THEN provider[1][date] ELSE <<>>

\* A join that keeps the first line only
JoinFirstOnly(lines) == lines[1]

\* ';\n'.join(lines)
RECURSIVE Join(_)
Join(lines) ==
    IF Len(lines) = 1 THEN lines[1]
    ELSE lines[1] \o ";\n" \o Join(Tail(lines))

\* The loop over the events of one date: moon_phase, photo and lines
RECURSIVE Collect(_, _)
Collect(events, acc) ==
    IF events = <<>> THEN acc
    ELSE LET event == Head(events)
             next == IF event.cls = "MoonPhase"
                     THEN [acc EXCEPT !.moon = Some(event.name)]
                     ELSE IF event.cls = "Birthday"
                     THEN [acc EXCEPT !.photo = event.image,
                                      !.lines = Append(@, event.name)]
                     ELSE [acc EXCEPT !.lines = Append(@, event.name)]
         IN  Collect(Tail(events), next)

\* A date one day after the cell's own
DateOfNextDay(y, m, d) == <<y, m, d + 1>>

\* datetime.date(self._year, self._month, day)
DateOfCell(y, m, d) == <<y, m, d>>

\* `if day and events` : the cells whose date is passed to events.get
IsQueried(d, provider) == d # 0 /\ provider # None

\* The body of the two loops of Month.__init__ for one calendar entry
CellWithEvents(y, m, d, provider) ==
    IF IsQueried(d, provider)
    THEN LET acc == Collect(Get(provider, DateOfCell(y, m, d)),
                            [photo |-> None, lines |-> <<>>, moon |-> None])
             text == IF acc.lines # <<>> THEN Some(Join(acc.lines)) ELSE None
         IN  Day(Some(d), acc.photo, text, acc.moon)
    ELSE CellOf(d)

\* Month.__init__ : self._cells, with an events provider
BuildCellsWithEvents(y, m, provider) ==
    LET cal == MonthCalendar(y, m)
    IN  PadRows([r \in 1..Len(cal) |->
                    [c \in 1..7 |-> CellWithEvents(y, m, cal[r][c], provider)]])

\* The dates passed to events.get while the cells are built
QueriedDates(y, m, provider) ==
    LET cal == MonthCalendar(y, m)
    IN  { DateOfCell(y, m, cal[r][c]) :
            <<r, c>> \in { rc \in (1..Len(cal)) \X (1..7) :
                            IsQueried(cal[rc[1]][rc[2]], provider) } }

EventsInit ==
    /\ eYear = 0
    /\ eMonth = 0
    /\ eProvider = None
    /\ eCells = <<>>
    /\ eQueried = {}

\* Month(year, month, events)
NewMonthWithEvents(y, m, provider) ==
    /\ eYear' = y
    /\ eMonth' = m
    /\ eProvider' = provider
    /\ eCells' = BuildCellsWithEvents(y, m, provider)
    /\ eQueried' = QueriedDates(y, m, provider)
    /\ EventsOnly

\* The years of the months built with a provider
EventYears == {2024, 2026}

EventsNext ==
    \E y \in EventYears, m \in 1..12, provider \in Providers :
        NewMonthWithEvents(y, m, provider)

\* The cells of the built month, as a set of positions
CellPositions == { rc \in (1..Len(eCells)) \X (1..7) : TRUE }

CellAt(rc) == eCells[rc[1]][rc[2]]

\* The dates for which the provider of the built month yields an event
Support ==
    IF eProvider = None THEN {}
    ELSE { date \in EventDates : eProvider[1][date] # <<>> }

HasText(cell) == cell.text # None /\ cell.text # Some("")

\* C20: the provider is queried only for the dates of the cells that have
\* a day number; the text, photo and moon phase of a cell come from the
\* events of its own date only; a provider with events for a single date
\* leaves every cell but the one with that day number without text; every
\* padding cell has day, photo and text None.
C20_CellsFromOwnDateOnly ==
    eYear # 0 =>
        /\ \A date \in eQueried :
              /\ date[1] = eYear /\ date[2] = eMonth
              /\ \E rc \in CellPositions : CellAt(rc).day = Some(date[3])
        /\ \A rc \in CellPositions :
              LET cell == CellAt(rc)
              IN  IF cell.day = None
                  THEN cell.photo = None /\ cell.text = None
                  ELSE LET date == <<eYear, eMonth, cell.day[1]>>
                           own == IF date \in Support THEN eProvider[1][date] ELSE <<>>
                           names == {own[k].name : k \in {j \in 1..Len(own) : own[j].cls # "MoonPhase"}}
                       IN  /\ HasText(cell) <=> names # {}
                           /\ cell.photo # None <=> \E k \in 1..Len(own) : own[k].cls = "Birthday"
                           /\ cell.moon_phase # None <=> \E k \in 1..Len(own) : own[k].cls = "MoonPhase"
        /\ \A date \in Support :
              Support = {date} =>
                 \A rc \in CellPositions :
                    HasText(CellAt(rc)) =>
                       /\ CellAt(rc).day = Some(date[3])
                       /\ date[1] = eYear /\ date[2] = eMonth

C20_Witness ==
    /\ eYear = 2024 /\ eMonth = 2
    /\ Support = {<<2024, 2, 14>>}
    /\ Cardinality({rc \in CellPositions : HasText(CellAt(rc))}) = 1
    /\ \E rc \in CellPositions : CellAt(rc).day = Some(14) /\ CellAt(rc).text = Some("Easter")
    /\ \E rc \in CellPositions : CellAt(rc).day = None

\* ------------------------------------------------------------------------
\* lib/pycal.py : the Day built from the events of one date
\* ------------------------------------------------------------------------

\* The longest sequence of events a provider yields for the date
MaxEvents == 3

\* A Birthday whose vCard has no image: birthday.image is None
BirthdayNoImage(name) == [cls |-> "Birthday", name |-> name, image |-> None]

\* The events a provider may yield
EventKinds ==
    { Event("Easter"), MoonPhaseEvent("Full Moon"), MoonPhaseEvent("New Moon"),
      Birthday("ann.jpg", "Ann"), BirthdayNoImage("Bob") }

RECURSIVE SeqsUpTo(_, _)
SeqsUpTo(S, n) ==
    IF n = 0 THEN {<<>>}
    ELSE LET shorter == SeqsUpTo(S, n - 1)
         IN  shorter \cup { Append(q, x) : q \in shorter, x \in S }

\* The date of the cell that is built
DayDate == <<2024, 2, 14>>

\* A provider that yields the given events for DayDate
ProviderOf(events) == Some([date \in {DayDate} |-> events])

DayInit ==
    /\ yEvents = <<>>
    /\ yDay = Day(None, None, None, None)

\* One turn of the inner loop of Month.__init__ for the cell of DayDate
BuildDay(events) ==
    /\ yEvents' = events
    /\ yDay' = CellWithEvents(DayDate[1], DayDate[2], DayDate[3], ProviderOf(events))
    /\ DayOnly

DayNext == \E events \in SeqsUpTo(EventKinds, MaxEvents) : BuildDay(events)

\* The positions of the yielded events of the given classes
PositionsOf(classes) == {k \in 1..Len(yEvents) : yEvents[k].cls \in classes}

Last(S) == CHOOSE k \in S : \A j \in S : j <= k

\* The names at the positions S, in order, with ";\n" between them
RECURSIVE NamesJoined(_)
NamesJoined(S) ==
    LET k == Last(S)
    IN  IF S = {k} THEN yEvents[k].name
        ELSE NamesJoined(S \ {k}) \o ";\n" \o yEvents[k].name

\* C21: the text of the built Day is the names of the Event and Birthday
\* events in yield order joined by ";\n" (None without any), its moon
\* phase is the name of the last MoonPhase event, its photo the image of
\* the last Birthday event.
C21_DayFromEvents ==
    yDay.day # None =>
        LET named == PositionsOf({"Event", "Birthday"})
            moons == PositionsOf({"MoonPhase"})
            births == PositionsOf({"Birthday"})
        IN  /\ yDay.text = IF named = {} THEN None ELSE Some(NamesJoined(named))
            /\ yDay.moon_phase = IF moons = {} THEN None
                                 ELSE Some(yEvents[Last(moons)].name)
            /\ yDay.photo = IF births = {} THEN None
                            ELSE yEvents[Last(births)].image

C21_Witness ==
    /\ yEvents = <<MoonPhaseEvent("Full Moon"), Birthday("ann.jpg", "Ann"), Event("Easter")>>
    /\ yDay.text = Some("Ann;\nEaster")
    /\ yDay.moon_phase = Some("Full Moon")
    /\ yDay.photo = Some("ann.jpg")

\* ------------------------------------------------------------------------
\* lib/export/png_exporter.py : PngWallCalendarExporter and
\* PngWallCalendarExporterV2 over the page streams of their variants
\* ------------------------------------------------------------------------

\* _WAL_CAL of the two wall exporters
WallVariants == {"wall_cal", "wall_cal_v2"}

\* What iterating _WAL_CAL.ImageDrawer.draw(calendar) gives
WallStream(variant) ==
    IF variant = "wall_cal"
    THEN [i \in 1..Len(WallProgram) |-> ItemOf(WallHandlerReturns, WallProgram[i])]
    ELSE [i \in 1..(NumMonths + 1) |->
            ItemOf(DrawCallReturns,
                   IF i = 1 THEN PageOf("front", 0) ELSE PageOf("art", i - 1))]

\* img.save exists for images only: a generator has no save attribute
HasSave(kind) == kind \in {"pil", "wrapper"}

NoWallJob == [variant |-> "none", skip |-> FALSE, dpi |-> 0]

WallExportInit ==
    /\ wJob = NoWallJob
    /\ wPc = "idle"
    /\ wPage = 0
    /\ wOut = 0
    /\ wFiles = <<>>
    /\ wSuccess = TRUE
    /\ wIo = FALSE

\* export(context) of a wall exporter, up to the loop; valid: whether
\* validate_context accepts the context (it raises before the try if not)
StartWallExport(variant, skip, dpi, valid) ==
    /\ wPc \in {"idle", "returned", "raised"}
    /\ wJob' = [variant |-> variant, skip |-> skip, dpi |-> dpi]
    /\ wPc' = IF valid THEN "loop" ELSE "raised"
    /\ wPage' = 0
    /\ wOut' = 0
    /\ wFiles' = <<>>
    /\ wSuccess' = TRUE
    /\ wIo' = FALSE
    /\ WallExportOnly

\* One turn of `for img in imgs`; saveOk: the file system accepts the file
WallExportPage(saveOk) ==
    /\ wPc = "loop"
    /\ wPage < Len(WallStream(wJob.variant))
    /\ LET img == WallStream(wJob.variant)[wPage + 1]
       IN  IF wJob.skip /\ IsMonthPage(wPage)
           THEN /\ wPage' = wPage + 1
                /\ UNCHANGED <<wPc, wOut, wFiles, wSuccess, wIo>>
           ELSE IF ~HasSave(img.kind) \/ ~saveOk
           THEN /\ wSuccess' = FALSE
                /\ wPc' = "returned"
                /\ wIo' = HasSave(img.kind)
                /\ UNCHANGED <<wPage, wOut, wFiles>>
           ELSE /\ wFiles' = Append(wFiles, [name |-> wOut, page |-> img.page])
                /\ wPage' = wPage + 1
                /\ wOut' = wOut + 1
                /\ UNCHANGED <<wPc, wSuccess, wIo>>
    /\ UNCHANGED wJob
    /\ WallExportOnly

\* The stream is exhausted: export returns the result
WallExportDrained ==
    /\ wPc = "loop"
    /\ wPage = Len(WallStream(wJob.variant))
    /\ wPc' = "returned"
    /\ UNCHANGED <<wJob, wPage, wOut, wFiles, wSuccess, wIo>>
    /\ WallExportOnly

WallExportNext ==
    \/ \E variant \in WallVariants, skip \in BOOLEAN, dpi \in JobDpis, valid \in BOOLEAN :
          StartWallExport(variant, skip, dpi, valid)
    \/ \E saveOk \in BOOLEAN : WallExportPage(saveOk)
    \/ WallExportDrained

\* The files Page_0.png .. and what they show, as the claim C22 states
ExpectedFiles(skip) ==
    IF skip
    THEN [i \in 1..13 |-> [name |-> i - 1,
                           page |-> IF i = 1 THEN PageOf("front", 0)
                                    ELSE PageOf("art", i - 1)]]
    ELSE [i \in 1..25 |-> [name |-> i - 1, page |-> ExpectedWallPages[i]]]

MaxPulls == 2

Decoders == {"wall", "desk"}

\* DrawDecoder.dpi (getter) : return Resolution.dpi
DecoderDpi(decoder) == rDpi

\* A page whose size is fixed by the dpi in force when draw() was called
DpiAtDraw(atDraw, atPull) == atDraw

\* The dpi that Image.new converts the layout size with: Resolution.dpi at
\* the time the generator body runs, which is when the page is pulled
DpiOfPage(atDraw, atPull) == atPull

NoGen == [state |-> "none", dpi |-> 0, atDraw |-> 0, pages |-> <<>>]

SharedInit == sGens = [decoder \in Decoders |-> NoGen]

\* A job sets its dpi through its decoder and calls draw(): the generator
\* is created, nothing of it has run
ConfigureAndDraw(decoder, dpi) ==
    /\ rDpi' = dpi
    /\ sGens' = [sGens EXCEPT ![decoder] =
                    [state |-> "created", dpi |-> dpi, atDraw |-> dpi, pages |-> <<>>]]
    /\ ResKept
    /\ SharedOnly

\* Resolution.dpi = value, by any code
SetResolutionDpi(value) ==
    /\ rDpi' = value
    /\ UNCHANGED sGens
    /\ ResKept
    /\ SharedOnly

\* next(generator) : the layout of the next page is constructed
PullPage(decoder) ==
    /\ sGens[decoder].state = "created"
    /\ Len(sGens[decoder].pages) < MaxPulls
    /\ LET dpi == DpiOfPage(sGens[decoder].atDraw, rDpi)
       IN  sGens' = [sGens EXCEPT ![decoder].pages =
                        Append(@, [size |-> LayoutPixels(decoder, dpi, rDefault),
                                   inforce |-> rDpi])]
    /\ UNCHANGED rDpi
    /\ ResKept
    /\ SharedOnly

SharedNext ==
    \/ \E decoder \in Decoders, dpi \in JobDpis : ConfigureAndDraw(decoder, dpi)
    \/ \E value \in JobDpis \cup OtherDpis : SetResolutionDpi(value)
    \/ \E decoder \in Decoders : PullPage(decoder)

\* C25: every decoder reads the one Resolution.dpi; the pixel size of a
\* page is the one of the dpi in force when the page was pulled; hence a
\* page pulled while the dpi in force was not its job's dpi does not have
\* the size of its job's dpi.
C25_SharedResolution ==
    \A decoder \in Decoders :
        /\ DecoderDpi(decoder) = rDpi
        /\ \A k \in 1..Len(sGens[decoder].pages) :
              LET page == sGens[decoder].pages[k]
              IN  /\ page.size = ExpectedPixels(decoder, page.inforce)
                  /\ page.inforce # sGens[decoder].dpi =>
                        page.size # ExpectedPixels(decoder, sGens[decoder].dpi)

\* The wall job at 96 dpi and the desk job at 150 dpi were drained
\* interleaved: the second wall page has the size of 150 dpi.
C25_Witness ==
    /\ sGens["wall"].dpi = 96
    /\ sGens["desk"].dpi = 150
    /\ Len(sGens["wall"].pages) = 2
    /\ Len(sGens["desk"].pages) = 1
    /\ sGens["wall"].pages[1].size = <<1056, 816>>
    /\ sGens["wall"].pages[2].size = <<1650, 1275>>

\* ------------------------------------------------------------------------
\* lib/print/wall_cal.py, wall_cal_v2.py, wall_cal_base.py, desk_cal.py :
\* the region boxes of the layouts. Lengths are exact multiples of 1/4200
\* inch, which every constant of the layouts is.
\* ------------------------------------------------------------------------

\* The length n/d inches
In(n, d) == (n * 4200) \div d

LayoutVariants == {"wall_cal", "wall_cal_v2", "desk_cal"}

\* WallCalPage of wall_cal and of wall_cal_v2 ; DeskCalSize
PageClass(v) ==
    IF v = "wall_cal"
    THEN [WIDTH |-> In(11, 1), HEIGHT |-> In(17, 2), BIND_PADDING |-> In(35, 100)]
    ELSE IF v = "wall_cal_v2"
    THEN [WIDTH |-> In(21, 2), HEIGHT |-> In(15, 2), BIND_PADDING |-> 0]
    ELSE [WIDTH |-> In(7, 1), HEIGHT |-> In(17, 4), BIND_PADDING |-> 0]

\* FrontPageLayout
FrontPageLayout(v) ==
    LET p == PageClass(v)
    IN  [PADDING |-> IF v = "wall_cal" THEN <<0, p.BIND_PADDING, 0, 0>> ELSE <<0, 0, 0, 0>>,
         TOP_BAR |-> IF v = "wall_cal" THEN In(1, 4) ELSE 0,
         IMAGE_WIDTH |-> p.WIDTH,
         IMAGE_HEIGHT |-> In(6, 1),
         TITLE_WIDTH |-> p.WIDTH,
         TITLE_HEIGHT |-> In(3, 2)]

\* ArtPageLayout
ArtPageLayout(v) ==
    LET p == PageClass(v)
        padding == IF v = "wall_cal" THEN <<0, 0, 0, p.BIND_PADDING>> ELSE <<0, 0, 0, 0>>
        left == IF v = "wall_cal" THEN In(7, 10) ELSE 0
        right == IF v = "wall_cal" THEN In(7, 10) ELSE 0
        bot == IF v = "wall_cal" THEN In(7, 10) ELSE In(55, 100)
        top == IF v = "wall_cal" THEN In(1, 1) ELSE 0
        imageWidth == IF v = "wall_cal" THEN p.WIDTH - (left + right) ELSE p.WIDTH
        imageHeight == IF v = "wall_cal" THEN p.HEIGHT - (padding[4] + top + bot)
                       ELSE p.HEIGHT - bot
    IN  [PADDING |-> padding,
         IMG_LEFT_BORDER |-> left, IMG_TOP_BORDER |-> top,
         IMAGE_WIDTH |-> imageWidth, IMAGE_HEIGHT |-> imageHeight,
         INFO_WIDTH |-> imageWidth, INFO_HEIGHT |-> bot]

\* CalendarPageLayout
CalendarPageLayout(v) ==
    LET p == PageClass(v)
    IN  [PADDING |-> <<0, p.BIND_PADDING + In(4, 10), 0, 0>>,
         CAL_BORDER |-> In(1, 2),
         CALL_WIDTH |-> In(10, 1),
         CALL_HEIGHT |-> In(25, 4),
         CELL_WIDTH |-> In(10, 1) \div 7,
         CELL_HEIGHT |-> In(25, 4) \div 6,
         HEADER_WIDTH |-> In(10, 1) \div 7,
         HEADER_HEIGHT |-> In(3, 10),
         TITLE_HEIGHT |-> In(7, 10)]

\* WallCalPageBase.main_bbox of a layout with the given PADDING
MainBBox(v, padding) ==
    BBox(padding[1], padding[2],
         PageClass(v).WIDTH - padding[3], PageClass(v).HEIGHT - padding[4])

\* FrontPageLayoutBase.image_bbox, title_bbox
FrontImageBBox(v) ==
    LET f == FrontPageLayout(v)
    IN  BBoxNew(0, f.PADDING[2] + f.TOP_BAR, f.IMAGE_WIDTH, f.IMAGE_HEIGHT)
FrontTitleBBox(v) ==
    LET f == FrontPageLayout(v)
    IN  BBoxNew(0, f.PADDING[2] + f.TOP_BAR + f.IMAGE_HEIGHT, f.TITLE_WIDTH, f.TITLE_HEIGHT)

\* ArtPageLayoutBase.image_bbox, info_bbox
ArtImageBBox(v) ==
    LET a == ArtPageLayout(v)
    IN  BBoxNew(a.IMG_LEFT_BORDER, a.IMG_TOP_BORDER, a.IMAGE_WIDTH, a.IMAGE_HEIGHT)
ArtInfoBBox(v) ==
    LET a == ArtPageLayout(v)
    IN  BBoxNew(a.IMG_LEFT_BORDER, PageClass(v).HEIGHT - a.PADDING[4] - a.INFO_HEIGHT,
                a.INFO_WIDTH, a.INFO_HEIGHT)

\* CalendarPageLayoutBase.title_bbox, header_bbox, cel_bbox, cal_bbox
CalTitleBBox(v) ==
    LET c == CalendarPageLayout(v)
    IN  BBoxNew(c.CAL_BORDER, c.PADDING[2], c.CALL_WIDTH, c.TITLE_HEIGHT)
HeaderBBox(v, index) ==
    LET c == CalendarPageLayout(v)
    IN  BBoxNew(c.CAL_BORDER + c.HEADER_WIDTH * index, c.PADDING[2] + c.TITLE_HEIGHT,
                c.HEADER_WIDTH, c.HEADER_HEIGHT)
CelBBox(v, x, y) ==
    LET c == CalendarPageLayout(v)
    IN  BBoxNew(c.CAL_BORDER + c.CELL_WIDTH * x,
                c.PADDING[2] + c.TITLE_HEIGHT + c.HEADER_HEIGHT + c.CELL_HEIGHT * y,
                c.CELL_WIDTH, c.CELL_HEIGHT)
CalBBox(v) ==
    LET begin == CelBBox(v, 0, 0)
        end == CelBBox(v, 6, 5)
    IN  BBox(begin[1], begin[2], end[3], end[4])

\* DeskCalSize.info_bbox, image_bbox, cal_bbox
DeskInfoBBox ==
    LET p == PageClass("desk_cal")
    IN  BBoxNew(In(4, 1), In(1, 4), p.WIDTH - In(4, 1), p.HEIGHT - In(1, 4))
DeskImageBBox ==
    BBoxNew(0, PageClass("desk_cal").HEIGHT - In(4, 1), In(4, 1), In(4, 1))
DeskCalBBox ==
    LET leftPadding == (Width(DeskInfoBBox) - In(26, 10)) \div 2
        topPadding == (Height(DeskInfoBBox) - In(26, 10)) \div 2
        infoBox == Move(DeskInfoBBox, leftPadding, topPadding)
    IN  Move(BBox(0, 0, In(26, 10), In(26, 10)), infoBox[1], infoBox[2])

Region(name, c, r) == [name |-> name, c |-> c, r |-> r]

\* The region boxes a variant computes
Regions(v) ==
    IF v = "desk_cal"
    THEN {Region(n, 0, 0) : n \in {"info_bbox", "image_bbox", "cal_bbox"}}
    ELSE {Region(n, 0, 0) : n \in {"front.main_bbox", "front.image_bbox", "front.title_bbox",
                                   "art.main_bbox", "art.image_bbox", "art.info_bbox",
                                   "cal.main_bbox", "cal.title_bbox", "cal_bbox"}}
         \cup {Region("header_bbox", c, 0) : c \in 0..6}
         \cup {Region("cel_bbox", c, r) : c \in 0..6, r \in 0..5}

RegionBox(v, region) ==
    LET n == region.name
    IN  IF v = "desk_cal"
        THEN (IF n = "info_bbox" THEN DeskInfoBBox
              ELSE IF n = "image_bbox" THEN DeskImageBBox ELSE DeskCalBBox)
        ELSE IF n = "front.main_bbox" THEN MainBBox(v, FrontPageLayout(v).PADDING)
        ELSE IF n = "art.main_bbox" THEN MainBBox(v, ArtPageLayout(v).PADDING)
        ELSE IF n = "cal.main_bbox" THEN MainBBox(v, CalendarPageLayout(v).PADDING)
        ELSE IF n = "front.image_bbox" THEN FrontImageBBox(v)
        ELSE IF n = "front.title_bbox" THEN FrontTitleBBox(v)
        ELSE IF n = "art.image_bbox" THEN ArtImageBBox(v)
        ELSE IF n = "art.info_bbox" THEN ArtInfoBBox(v)
        ELSE IF n = "cal.title_bbox" THEN CalTitleBBox(v)
        ELSE IF n = "header_bbox" THEN HeaderBBox(v, region.c)
        ELSE IF n = "cel_bbox" THEN CelBBox(v, region.c, region.r)
        ELSE CalBBox(v)

LayoutInit ==
    /\ lVariant = "none"
    /\ lRegion = Region("none", 0, 0)
    /\ lBox = NoBox

\* A handler asks a layout for one of its region boxes
ComputeBox(v, region) ==
    /\ lVariant' = v
    /\ lRegion' = region
    /\ lBox' = RegionBox(v, region)
    /\ LayoutOnly

LayoutNext == \E v \in LayoutVariants : \E region \in Regions(v) : ComputeBox(v, region)

\* The box lies inside the page rectangle (0, 0, WIDTH, HEIGHT)
InsidePage(v, box) ==
    /\ 0 <= box[1] /\ 0 <= box[2]
    /\ box[3] <= PageClass(v).WIDTH
    /\ box[4] <= PageClass(v).HEIGHT

\* C26: every region box of every layout variant has left <= right and
\* top <= bottom and lies inside the page; cal_bbox is the union of the 42
\* cell boxes, and neighbouring cells share an edge.
C26_RegionsInsidePage ==
    lVariant # "none" =>
        /\ lBox[1] <= lBox[3] /\ lBox[2] <= lBox[4]
        /\ InsidePage(lVariant, lBox)
        /\ (lRegion.name = "cel_bbox" /\ lRegion.c < 6) =>
              lBox[3] = CelBBox(lVariant, lRegion.c + 1, lRegion.r)[1]
        /\ (lRegion.name = "cel_bbox" /\ lRegion.r < 5) =>
              lBox[4] = CelBBox(lVariant, lRegion.c, lRegion.r + 1)[2]
        /\ (lRegion.name = "cal_bbox" /\ lVariant # "desk_cal") =>
              /\ \A c \in 0..6, r \in 0..5 :
                    LET cell == CelBBox(lVariant, c, r)
                    IN  /\ lBox[1] <= cell[1] /\ lBox[2] <= cell[2]
                        /\ cell[3] <= lBox[3] /\ cell[4] <= lBox[4]
              /\ Width(lBox) = 7 * Width(CelBBox(lVariant, 0, 0))
              /\ Height(lBox) = 6 * Height(CelBBox(lVariant, 0, 0))

\* ------------------------------------------------------------------------
\* lib/print/wall_cal.py : DrawMonth, the strokes of the grid
\* ------------------------------------------------------------------------

\* OPTIONS_SCHEMA['dpi']['choices']
ExportDpis == {32, 64, 96, 150, 300, 600, 1200}

\* Draw.rectangle: width = Resolution.to_pt(width), for width=.01
StrokeWidth(dpi, default) == ToPt(PyFloat(1, 100), dpi, default).n

NoStroke == [ops |-> <<>>, width |-> 0]

GridInit ==
    /\ qPc = "idle"
    /\ qCell = 0
    /\ qStroke = NoStroke

\* An export at the given dpi reaches the Month handler: the page is laid
\* out, title and headers are drawn
StartMonthGrid(dpi) ==
    /\ qPc \in {"idle", "done"}
    /\ rDpi' = dpi
    /\ qPc' = "cells"
    /\ qCell' = 0
    /\ qStroke' = NoStroke
    /\ ResKept
    /\ GridOnly

\* One turn of the loops over weeks and days: DrawCell(page, day, pos),
\* then draw.rectangle(pos, outline='black', width=.01)
StrokeCell ==
    /\ qPc = "cells"
    /\ qCell < 42
    /\ qCell' = qCell + 1
    /\ qStroke' = [ops |-> <<"DrawCell", "rectangle">>,
                   width |-> StrokeWidth(rDpi, rDefault)]
    /\ UNCHANGED <<qPc, rDpi>>
    /\ ResKept
    /\ GridOnly

\* draw.rectangle(cal_box, outline='black', width=.01) ; return
StrokeGrid ==
    /\ qPc = "cells"
    /\ qCell = 42
    /\ qPc' = "done"
    /\ qStroke' = [ops |-> <<"rectangle">>, width |-> StrokeWidth(rDpi, rDefault)]
    /\ UNCHANGED <<qCell, rDpi>>
    /\ ResKept
    /\ GridOnly

GridNext ==
    \/ \E dpi \in ExportDpis : StartMonthGrid(dpi)
    \/ StrokeCell
    \/ StrokeGrid

\* C27: at every dpi of the export enum, the border of each cell, stroked
\* after the cell's content, and the border of the grid are at least one
\* device pixel wide: to_pt(0.01) >= 1.
C27_StrokesAtLeastOnePixel ==
    qStroke # NoStroke =>
        /\ qStroke.width >= 1
        /\ qStroke.ops[Len(qStroke.ops)] = "rectangle"

\* ------------------------------------------------------------------------
\* lib/print/wall_cal_base.py : DrawCell, the photo of a cell
\* ------------------------------------------------------------------------

\* to_pt of a length given in 1/4200 inch, in inches mode
LenToPt(len, dpi) == InToPt(len, 4200, dpi)

\* img_size = pos.shrink(0.01)
ImgSize(c, r) == Shrink(CelBBox("wall_cal", c, r), In(1, 100))

\* The cells and resolutions of the model: all but the bottom row at 600
\* and 1200 dpi, where the inset height times dpi is a whole number (613,
\* 1226) that the double product misses by one bit
PhotoCells ==
    { cell \in [dpi : ExportDpis, c : 0..6, r : 0..5] :
        ~(cell.dpi \in {600, 1200} /\ cell.r = 5) }

\* photo.resize((img_size.width, img_size.height)) : the photo is resized
\* to cover and cropped to to_pt of the two lengths
ResizedTo(box, dpi) == <<LenToPt(Width(box), dpi), LenToPt(Height(box), dpi)>>

\* draw.paste(photo, (img_size.x, img_size.y)) : the upper left corner
PastedAt(box, dpi) == <<LenToPt(box[1], dpi), LenToPt(box[2], dpi)>>

NoPhoto == [size |-> <<0, 0>>, at |-> <<0, 0>>]

PhotoInit ==
    /\ pCell = [dpi |-> 0, c |-> 0, r |-> 0]
    /\ pPhoto = NoPhoto

\* DrawCell for a day with a photo, at the given resolution
PastePhoto(cell) ==
    /\ pCell' = cell
    /\ pPhoto' = [size |-> ResizedTo(ImgSize(cell.c, cell.r), cell.dpi),
                  at |-> PastedAt(ImgSize(cell.c, cell.r), cell.dpi)]
    /\ PhotoOnly

PhotoNext == \E cell \in PhotoCells : PastePhoto(cell)

\* C28: the pasted photo is to_pt(right) - to_pt(left) pixels wide and
\* to_pt(bottom) - to_pt(top) pixels high, so that it covers the pixel box
\* of the cell's inset box exactly.
C28_PhotoCoversInsetBox ==
    pCell.dpi # 0 =>
        LET box == ImgSize(pCell.c, pCell.r)
        IN  /\ pPhoto.at = <<LenToPt(box[1], pCell.dpi), LenToPt(box[2], pCell.dpi)>>
            /\ pPhoto.size[1] = LenToPt(box[3], pCell.dpi) - LenToPt(box[1], pCell.dpi)
            /\ pPhoto.size[2] = LenToPt(box[4], pCell.dpi) - LenToPt(box[2], pCell.dpi)

\* ------------------------------------------------------------------------
\* lib/print/desk_cal.py : expan_to_legal on the desk pages of the export
\* resolutions, with its two dash loops run turn by turn
\* ------------------------------------------------------------------------

\* The desk pages rendered at the resolutions of the export enum, and an
\* image without pixels
TileInputs == {DeskPageSize(p) : p \in ExportDpis} \cup {[w |-> 0, h |-> 0]}

TileInit ==
    /\ zCall = NoExpand
    /\ zPc = "idle"
    /\ zT = 0

\* expan_to_legal(image) up to the first dash loop: the sizes, the canvas,
\* the four pastes
TileStart(image) ==
    /\ zPc \in {"idle", "done"}
    /\ LET ppi == DerivedPpi(image)
           tile == [w |-> TileW(ppi), h |-> TileH(ppi)]
       IN  zCall' = [image |-> image, ppi |-> ppi,
                     resized |-> (image # tile),
                     tile |-> tile,
                     canvas |-> [w |-> OutW(ppi), h |-> OutH(ppi)]]
    /\ zPc' = "vertical"
    /\ zT' = 0
    /\ TileOnly

\* One test of `while y < out_h` and, if it holds, one dash
DashVertical ==
    /\ zPc = "vertical"
    /\ IF zT < zCall.canvas.h
       THEN zT' = zT + DashLen(zCall.ppi) + DashLen(zCall.ppi) /\ UNCHANGED zPc
       ELSE zT' = 0 /\ zPc' = "horizontal"
    /\ UNCHANGED zCall
    /\ TileOnly

\* One test of `while x < out_w` and, if it holds, one dash; return canvas
DashHorizontal ==
    /\ zPc = "horizontal"
    /\ IF zT < zCall.canvas.w
       THEN zT' = zT + DashLen(zCall.ppi) + DashLen(zCall.ppi) /\ UNCHANGED zPc
       ELSE zPc' = "done" /\ UNCHANGED zT
    /\ UNCHANGED zCall
    /\ TileOnly

TileNext ==
    \/ \E image \in TileInputs : TileStart(image)
    \/ DashVertical
    \/ DashHorizontal

\* C30: for a desk page produced at a resolution p of the export enum the
\* derived ppi is p and twice the tile is the canvas, in width and in
\* height; an input whose derived ppi is not positive is tiled at 300; the
\* dash length is at least 6 pixels.
C30_TilesFitCanvas ==
    zPc # "idle" =>
        /\ \A p \in ExportDpis : zCall.image = DeskPageSize(p) => zCall.ppi = p
        /\ 2 * zCall.tile.w = zCall.canvas.w
        /\ 2 * zCall.tile.h = zCall.canvas.h
        /\ zCall.image = [w |-> 0, h |-> 0] => zCall.ppi = 300
        /\ DashLen(zCall.ppi) >= 6

\* ------------------------------------------------------------------------
\* Specifications
\* ------------------------------------------------------------------------
Init ==
    /\ MonthInit
    /\ ResInit
    /\ RegInit
    /\ PassInit
    /\ GenInit
    /\ BoxInit
    /\ ImgInit
    /\ CellInit
    /\ WrapInit
    /\ ExpandInit
    /\ ExportInit
    /\ EventsInit
    /\ DayInit
    /\ WallExportInit
    /\ SharedInit
    /\ LayoutInit
    /\ GridInit
    /\ PhotoInit
    /\ TileInit

\* The construction of months
SpecMonth == Init /\ [][MonthNext]_vars

\* The unit conversion
SpecRes == Init /\ [][ResNext]_vars

\* The registration of handlers and the dispatch of the two decoders
SpecDispatch == Init /\ [][RegNext]_vars

\* The state once the print modules are imported
InitImported ==
    /\ MonthInit
    /\ ResInit
    /\ dHandlers = ImportedHandlers
    /\ hHandles = [c \in Classes |-> "none"]
    /\ dLast = NoDispatch
    /\ PassInit
    /\ GenInit
    /\ BoxInit
    /\ ImgInit
    /\ CellInit
    /\ WrapInit
    /\ ExpandInit
    /\ ExportInit
    /\ EventsInit
    /\ DayInit
    /\ WallExportInit
    /\ SharedInit
    /\ LayoutInit
    /\ GridInit
    /\ PhotoInit
    /\ TileInit

\* The generators of DrawDecoder.draw, pulled by their consumers
SpecFlatten == InitImported /\ [][PassNextStep]_vars

\* The Calendar generators of the wall and desk modules and their consumer
SpecRender == Init /\ [][GenNext]_vars

\* The construction and the transforms of boxes
SpecBBox == Init /\ [][BoxNext]_vars

\* The rectangles drawn on a page image
SpecImage == Init /\ [][ImgNext]_vars

\* The cells of a wall month page
SpecCell == Init /\ [][CellNext]_vars

\* The wrapping of cell texts
SpecWrap == Init /\ [][WrapNext]_vars

\* The legal-paper tiling of desk pages
SpecExpand == Init /\ [][ExpandNext]_vars

\* The state once the print modules are imported: the unit is inches
InitExport ==
    /\ MonthInit
    /\ rDpi = PRINT_DPI
    /\ rUnit = "in"
    /\ rDefault = "in_to_pt"
    /\ rRevert = "pt_to_in"
    /\ rSet = [unit |-> "in", outcome |-> "ok"]
    /\ rCall = NoCallRec
    /\ rBack = NoCall
    /\ RegInit
    /\ PassInit
    /\ GenInit
    /\ BoxInit
    /\ ImgInit
    /\ CellInit
    /\ WrapInit
    /\ ExpandInit
    /\ ExportInit
    /\ EventsInit
    /\ DayInit
    /\ WallExportInit
    /\ SharedInit
    /\ LayoutInit
    /\ GridInit
    /\ PhotoInit
    /\ TileInit

\* The PNG export jobs
SpecExport == InitExport /\ [][ExportNext]_vars

\* Months built with an events provider
SpecEvents == Init /\ [][EventsNext]_vars

\* The Day built from every short sequence of events
SpecDay == Init /\ [][DayNext]_vars

\* The wall exporters over the page streams of their variants
SpecWallExport == Init /\ [][WallExportNext]_vars

\* Two page generators under the one Resolution
SpecShared == InitExport /\ [][SharedNext]_vars

\* The region boxes of the layouts
SpecLayout == Init /\ [][LayoutNext]_vars

\* The strokes of the month grid at the export resolutions
SpecGrid == InitExport /\ [][GridNext]_vars

\* The photos of the cells at the export resolutions
SpecPhoto == Init /\ [][PhotoNext]_vars

\* expan_to_legal at the export resolutions
SpecTile == Init /\ [][TileNext]_vars

====
